---- MODULE Spec2Model ----
(***************************************************************************)
(* A model of the flight-price dataset builder (flight_price_fetcher.py):  *)
(* the field normalizers, the offer assembler, the rate limiter, the       *)
(* retry/backoff loop and the batch drivers fetch_multiple_routes (one     *)
(* query after the other) and fetch_multiple_routes_async (asyncio tasks   *)
(* behind a semaphore).                                                    *)
(*                                                                         *)
(* Text is a sequence of one-character strings; a character outside ASCII  *)
(* is written by name ("EUR" is the euro sign).  A Python value is a       *)
(* record [t, s, n]: t is its type ("absent" = the attribute does not      *)
(* exist, "none", "str", "int"), s its text, n its integer.                *)
(***************************************************************************)
EXTENDS Integers, Sequences, FiniteSets, TLC

\* ------------------------------------------------------------------ bounds
MaxConcurrent == 2      \* max_concurrent ranges over 1..MaxConcurrent
MaxRetries == 1         \* max_retries ranges over 0..MaxRetries
MaxSerialRetries == 2   \* and over 0..MaxSerialRetries when max_concurrent = 1
MaxQueries == 2         \* a batch holds at most this many (route, date) queries
RetryDelay == 1         \* retry_delay, in seconds
Today == 0              \* day number of datetime.now()

\* ------------------------------------------------------- Python values
PyAbsent == [t |-> "absent", s |-> <<>>, n |-> 0]
PyNone == [t |-> "none", s |-> <<>>, n |-> 0]
PyStr(chars) == [t |-> "str", s |-> chars, n |-> 0]
PyInt(k) == [t |-> "int", s |-> <<>>, n |-> k]

\* bool(v): None, '' and 0 are false
Truthy(v) ==
    CASE v.t = "str" -> v.s # <<>>
      [] v.t = "int" -> v.n # 0
      [] OTHER -> FALSE

\* getattr(obj, name, default)
Getattr(obj, name, default) ==
    IF obj[name].t = "absent" THEN default ELSE obj[name]

\* ------------------------------------------------------------ text helpers
Digits == <<"0", "1", "2", "3", "4", "5", "6", "7", "8", "9">>
UpperChars == <<"A", "B", "C", "D", "E", "F", "G", "H", "I", "J", "K", "L", "M",
                "N", "O", "P", "Q", "R", "S", "T", "U", "V", "W", "X", "Y", "Z">>
LowerChars == <<"a", "b", "c", "d", "e", "f", "g", "h", "i", "j", "k", "l", "m",
                "n", "o", "p", "q", "r", "s", "t", "u", "v", "w", "x", "y", "z">>

IsDigit(c) == \E i \in 1..Len(Digits) : Digits[i] = c
DigitVal(c) == (CHOOSE i \in 1..Len(Digits) : Digits[i] = c) - 1
IsSpace(c) == c = " "
\* superscript two (U+00B2), written by name: str.isdigit() holds of it and
\* int() raises ValueError on it
Sup2 == "SUP2"
\* str.isdigit() of one character
IsDigitChar(c) == IsDigit(c) \/ c = Sup2

LowerChar(c) ==
    IF \E i \in 1..Len(UpperChars) : UpperChars[i] = c
    THEN LowerChars[CHOOSE i \in 1..Len(UpperChars) : UpperChars[i] = c]
    ELSE c
UpperChar(c) ==
    IF \E i \in 1..Len(LowerChars) : LowerChars[i] = c
    THEN UpperChars[CHOOSE i \in 1..Len(LowerChars) : LowerChars[i] = c]
    ELSE c

\* str.lower(), str.upper()
Lower(s) == [i \in 1..Len(s) |-> LowerChar(s[i])]
Upper(s) == [i \in 1..Len(s) |-> UpperChar(s[i])]

\* str.strip()
Strip(s) ==
    LET keep == {i \in 1..Len(s) : ~IsSpace(s[i])}
    IN  IF keep = {} THEN <<>>
        ELSE LET lo == CHOOSE i \in keep : \A j \in keep : i <= j
                 hi == CHOOSE i \in keep : \A j \in keep : j <= i
             IN  SubSeq(s, lo, hi)

\* s[i:] starts with sub
StartsAt(s, i, sub) ==
    /\ i + Len(sub) - 1 <= Len(s)
    /\ \A k \in 1..Len(sub) : s[i + k - 1] = sub[k]

\* sub in s
Contains(s, sub) == \E i \in 1..(Len(s) + 1) : StartsAt(s, i, sub)

\* s.replace(sub, ''), sub not empty: every occurrence, left to right
RECURSIVE RemoveAll(_, _)
RemoveAll(s, sub) ==
    IF s = <<>> THEN <<>>
    ELSE IF StartsAt(s, 1, sub) THEN RemoveAll(SubSeq(s, Len(sub) + 1, Len(s)), sub)
    ELSE <<s[1]>> \o RemoveAll(Tail(s), sub)

\* int(digits) for a run of decimal digits
RECURSIVE ToInt(_)
ToInt(ds) ==
    IF ds = <<>> THEN 0
    ELSE 10 * ToInt(SubSeq(ds, 1, Len(ds) - 1)) + DigitVal(ds[Len(ds)])

\* the end of the longest run of digits (of blanks) that starts at i; i - 1 if none
RECURSIVE DigitRunEnd(_, _)
DigitRunEnd(s, i) ==
    IF i <= Len(s) /\ IsDigit(s[i]) THEN DigitRunEnd(s, i + 1) ELSE i - 1
RECURSIVE SpaceRunEnd(_, _)
SpaceRunEnd(s, i) ==
    IF i <= Len(s) /\ IsSpace(s[i]) THEN SpaceRunEnd(s, i + 1) ELSE i - 1

\* re.search(r'(\d+)\s*(?:u1|u2|...)', s) for a set of units: the positions where
\* a match starts.  \d+ and \s* are greedy and giving characters back never
\* helps (the next character would be a digit or a blank, which starts no unit),
\* so a match at i takes the whole digit run, the whole blank run, then a unit.
NumUnitStarts(s, units) ==
    {i \in 1..Len(s) :
        /\ IsDigit(s[i])
        /\ \E u \in units :
              StartsAt(s, SpaceRunEnd(s, DigitRunEnd(s, i) + 1) + 1, u)}
HasNumUnit(s, units) == NumUnitStarts(s, units) # {}
\* int(match.group(1)) of the leftmost match
NumUnitGroup(s, units) ==
    LET i == CHOOSE k \in NumUnitStarts(s, units) :
                 \A j \in NumUnitStarts(s, units) : k <= j
    IN  ToInt(SubSeq(s, i, DigitRunEnd(s, i)))

\* str(k) for an integer k
RECURSIVE NatToStr(_)
NatToStr(k) ==
    IF k < 10 THEN <<Digits[k + 1]>> ELSE NatToStr(k \div 10) \o <<Digits[(k % 10) + 1]>>
IntToStr(k) == IF k < 0 THEN <<"-">> \o NatToStr(0 - k) ELSE NatToStr(k)
\* str(v) for a Python value
StrOf(v) ==
    CASE v.t = "str" -> v.s
      [] v.t = "int" -> IntToStr(v.n)
      [] OTHER -> <<"N", "o", "n", "e">>

RECURSIVE Pow(_, _)
Pow(b, e) == IF e = 0 THEN 1 ELSE b * Pow(b, e - 1)

\* ------------------------------------------------------ field normalizers
\* _parse_duration(duration_str), duration_str a text
HourUnitsWithoutH == {<<"h", "r">>, <<"h", "o", "u", "r">>}
HourUnits == {<<"h", "r">>, <<"h", "o", "u", "r">>, <<"h">>}
MinuteUnits == {<<"m", "i", "n">>, <<"m", "i", "n", "u", "t", "e">>, <<"m">>}
_parse_duration(duration_str) ==
    IF duration_str = <<>> THEN 0
    ELSE LET d == Strip(Lower(duration_str))
             hours == IF HasNumUnit(d, HourUnits) THEN NumUnitGroup(d, HourUnits) ELSE 0
             minutes == IF HasNumUnit(d, MinuteUnits) THEN NumUnitGroup(d, MinuteUnits) ELSE 0
         IN  hours * 60 + minutes

\* currency_symbols, in the dict's insertion order
currency_symbols ==
    << [symbol |-> <<"$">>, code |-> "USD"],
       [symbol |-> <<"EUR">>, code |-> "EUR"],
       [symbol |-> <<"GBP">>, code |-> "GBP"],
       [symbol |-> <<"JPY">>, code |-> "JPY"],
       [symbol |-> <<"INR">>, code |-> "INR"],
       [symbol |-> <<"A", "$">>, code |-> "AUD"],
       [symbol |-> <<"C", "$">>, code |-> "CAD"] >>

\* the for loop over currency_symbols: the first entry whose symbol occurs; 0 if none
FirstSymbol(s) ==
    LET hits == {i \in 1..Len(currency_symbols) : Contains(s, currency_symbols[i].symbol)}
    IN  IF hits = {} THEN 0 ELSE CHOOSE i \in hits : \A j \in hits : i <= j

\* float(text) for digits[.digits]: the exact decimal value num/den, den a power
\* of ten and num/den in lowest decimal terms (binary rounding is left out)
RECURSIVE DropTrailingZeros(_)
DropTrailingZeros(ds) ==
    IF ds # <<>> /\ ds[Len(ds)] = "0" THEN DropTrailingZeros(SubSeq(ds, 1, Len(ds) - 1))
    ELSE ds
Float(intDigits, fracDigits) ==
    LET f == DropTrailingZeros(fracDigits)
    IN  [num |-> ToInt(intDigits \o f), den |-> Pow(10, Len(f))]

\* the pattern without its fractional part
PriceNumberNoFraction(s) ==
    LET starts == {i \in 1..Len(s) : IsDigit(s[i])}
    IN  IF starts = {} THEN [num |-> 0, den |-> 1]
        ELSE LET i == CHOOSE k \in starts : \A j \in starts : k <= j
             IN  Float(SubSeq(s, i, DigitRunEnd(s, i)), <<>>)
\* re.search(r'[\d,]+(?:\.\d+)?', s) on a text without commas: the leftmost digit
\* run, with a following '.' and digit run when there is one
PriceNumber(s) ==
    LET starts == {i \in 1..Len(s) : IsDigit(s[i])}
    IN  IF starts = {} THEN [num |-> 0, den |-> 1]
        ELSE LET i == CHOOSE k \in starts : \A j \in starts : k <= j
                 e == DigitRunEnd(s, i)
                 hasFrac == e + 2 <= Len(s) /\ s[e + 1] = "." /\ IsDigit(s[e + 2])
             IN  Float(SubSeq(s, i, e),
                       IF hasFrac THEN SubSeq(s, e + 2, DigitRunEnd(s, e + 2)) ELSE <<>>)

\* _parse_price raises AttributeError (no .strip) on a true value that is no text
_parse_price_raises(price_str) == Truthy(price_str) /\ price_str.t # "str"
\* _parse_price(price_str) where it returns: (price_value, currency)
_parse_price(price_str) ==
    IF ~Truthy(price_str) THEN [price |-> [num |-> 0, den |-> 1], currency |-> "USD"]
    ELSE LET p == Strip(price_str.s)
             k == FirstSymbol(p)
             currency == IF k = 0 THEN "USD" ELSE currency_symbols[k].code
             rest == IF k = 0 THEN p ELSE RemoveAll(p, currency_symbols[k].symbol)
         IN  [price |-> PriceNumber(RemoveAll(rest, <<",">>)), currency |-> currency]

\* _parse_stops(stops_info)
StopUnits == {<<"s", "t", "o", "p">>}
\* stops_str.isdigit()
IsDigitStr(raw) == raw # <<>> /\ \A i \in 1..Len(raw) : IsDigitChar(raw[i])
\* int(stops_str) raises ValueError: isdigit() held of a character that is no
\* decimal digit
_parse_stops_raises(stops_info) ==
    /\ stops_info.t # "int" /\ Truthy(stops_info)
    /\ LET raw == Strip(StrOf(stops_info))
       IN  IsDigitStr(raw) /\ \E i \in 1..Len(raw) : ~IsDigit(raw[i])
\* _parse_stops(stops_info) where it returns
_parse_stops(stops_info) ==
    IF stops_info.t = "int" THEN stops_info.n
    ELSE IF ~Truthy(stops_info) THEN -1
    ELSE LET raw == Strip(StrOf(stops_info))
             low == Lower(raw)
         IN  IF IsDigitStr(raw) THEN ToInt(raw)
             ELSE IF Contains(low, <<"n", "o", "n", "s", "t", "o", "p">>)
                     \/ Contains(low, <<"d", "i", "r", "e", "c", "t">>) THEN 0
             ELSE IF low = <<"u", "n", "k", "n", "o", "w", "n">> THEN -1
             ELSE IF HasNumUnit(low, StopUnits) THEN NumUnitGroup(low, StopUnits)
             ELSE -1

\* ---------------------------------------------------------- offer assembler
Min(a, b) == IF a <= b THEN a ELSE b
Max(a, b) == IF a >= b THEN a ELSE b

\* seq[:m], also for a negative m
SliceTo(seq, m) ==
    IF m >= 0 THEN SubSeq(seq, 1, Min(m, Len(seq)))
    ELSE SubSeq(seq, 1, Max(Len(seq) + m, 0))

SEAT_CLASSES ==
    << [seat |-> <<"e", "c", "o", "n", "o", "m", "y">>, label |-> "ECONOMY"],
       [seat |-> <<"p", "r", "e", "m", "i", "u", "m", "-", "e", "c", "o", "n", "o", "m", "y">>,
        label |-> "PREMIUM_ECONOMY"],
       [seat |-> <<"b", "u", "s", "i", "n", "e", "s", "s">>, label |-> "BUSINESS"],
       [seat |-> <<"f", "i", "r", "s", "t">>, label |-> "FIRST"] >>
\* seat = seat_class.lower() if seat_class else 'economy', 'economy' when unknown;
\* cabin_label = SEAT_CLASSES[seat]
CabinLabel(seat_class) ==
    LET seat == IF seat_class = <<>> THEN SEAT_CLASSES[1].seat ELSE Lower(seat_class)
        hits == {i \in 1..Len(SEAT_CLASSES) : SEAT_CLASSES[i].seat = seat}
    IN  IF hits = {} THEN SEAT_CLASSES[1].label
        ELSE SEAT_CLASSES[CHOOSE i \in hits : TRUE].label

\* airline = getattr(flight, 'name', '') or 'Unknown'
AirlineValue(flight) ==
    LET v == Getattr(flight, "name", PyStr(<<>>))
    IN  IF Truthy(v) THEN v ELSE PyStr(<<"U", "n", "k", "n", "o", "w", "n">>)
\* ',' in airline raises TypeError when airline is no text
AirlineRaises(flight) == AirlineValue(flight).t # "str"
\* airline.split(',')[0].strip() when airline holds a comma
Airline(flight) ==
    LET a == AirlineValue(flight).s
        commas == {i \in 1..Len(a) : a[i] = ","}
    IN  IF commas = {} THEN a
        ELSE Strip(SubSeq(a, 1, (CHOOSE i \in commas : \A j \in commas : i <= j) - 1))

\* getattr(flight, name, '') or ''
OrEmpty(flight, name) ==
    LET v == Getattr(flight, name, PyStr(<<>>))
    IN  IF Truthy(v) THEN v ELSE PyStr(<<>>)

\* the body of the loop over result.flights[:max_offers] raises
OfferRaises(flight) ==
    \/ _parse_price_raises(Getattr(flight, "price", PyStr(<<>>)))
    \/ _parse_stops_raises(Getattr(flight, "stops", PyNone))
    \/ AirlineRaises(flight)

\* offer_data of one flight at one rank
OfferData(query, seat_class, flight, rank) ==
    LET pc == _parse_price(Getattr(flight, "price", PyStr(<<>>)))
        duration_str == Getattr(flight, "duration", PyStr(<<>>))
    IN  [origin |-> Upper(query.origin),
         destination |-> Upper(query.destination),
         departure_date |-> query.departure_date.day,
         query_date |-> Today,
         days_before_departure |-> query.departure_date.day - Today,
         airline |-> Airline(flight),
         price |-> pc.price,
         currency |-> pc.currency,
         stops |-> _parse_stops(Getattr(flight, "stops", PyNone)),
         flight_duration |->
             _parse_duration(IF Truthy(duration_str) THEN StrOf(duration_str) ELSE <<>>),
         cabin |-> CabinLabel(seat_class),
         offer_rank |-> rank,
         departure_time |-> OrEmpty(flight, "departure"),
         arrival_time |-> OrEmpty(flight, "arrival"),
         source |-> "google_flights"]

\* What the code after the retry loop returns for a fetched result, the outer
\* `except Exception: return []` included.  result is None (ResultNone) or an
\* object with flights, a sequence of flight objects.
ResultNone == [t |-> "none", flights |-> <<>>]
Result(flights) == [t |-> "result", flights |-> flights]
NoFlights(result) == result.t = "none" \/ result.flights = <<>>
AssembleRaises(result, max_offers) ==
    /\ ~NoFlights(result)
    /\ \E i \in 1..Len(SliceTo(result.flights, max_offers)) : OfferRaises(result.flights[i])
AssembleOffers(query, seat_class, result, max_offers) ==
    IF NoFlights(result) \/ AssembleRaises(result, max_offers) THEN <<>>
    ELSE LET kept == SliceTo(result.flights, max_offers)
         IN  [rank \in 1..Len(kept) |-> OfferData(query, seat_class, kept[rank], rank)]

\* ------------------------------------------------------------- the batch
VARIABLES
    entry,                \* "async": fetch_multiple_routes_async, "sync": fetch_multiple_routes
    max_concurrent,       \* self.max_concurrent
    max_retries,          \* self.max_retries
    routes,               \* the routes argument
    departure_dates,      \* the departure_dates argument: [ok, day] per date text
    max_offers_per_search,\* the max_offers_per_search argument
    bpc,                  \* the batch call: "start", "running", "returned", "raised"
    tasks,                \* the queries in creation order: [origin, destination, departure_date, query_num]
    semaphore,            \* the value of asyncio.Semaphore(max_concurrent)
    rate_limiter_elapsed, \* time.time() - rate_limiter_elapsed[i]['time'], i in 0..max_concurrent-1
    last_request_elapsed, \* time.time() - self._last_request_elapsed
    pc,                   \* per task: "created", "rate_wait", "fetching", "backoff", "done"
    attempt,              \* per task: the retry loop's attempt
    sleep_left,           \* per task: what is left of its sleep, 0 while it does not sleep
    exc,                  \* per task: the exception being handled, "none" if none
    outcome,              \* per task: how it ended
    completion,           \* the tasks that returned offers, in the order they returned (observation)
    result,               \* per task: the offers it returned
    fetched,              \* per task: what the collaborator returned   (observation)
    all_offers,           \* all_offers of the batch call
    calls,                \* per task: fetch invocations so far           (observation)
    sleeps,               \* per task: the backoff sleeps it asked for     (observation)
    used_slots,           \* per task: the limiter slots it read or wrote  (observation)
    sent_elapsed,         \* per slot: time since its latest request started (observation)
    field_in,             \* the value handed to a field normalizer
    field_out,            \* what the normalizer did with it
    file,                 \* the CSV destination: [exists, lines]
    csv_call,             \* the arguments of the latest save_to_csv call (observation)
    s3,                   \* the latest upload_to_s3 call and the uploads made
    main,                 \* main(): its configuration, position and status
    session,              \* the PlaywrightSession object and the module's global
    co                    \* the coroutines that use the session, each with its position

\* the variables the batch leaves alone
other_vars == <<s3, main, session, co>>
io_vars == <<field_in, field_out, file, csv_call, other_vars>>

batch_vars ==
    <<entry, max_concurrent, max_retries, routes, departure_dates, max_offers_per_search,
      bpc, tasks, semaphore, rate_limiter_elapsed, last_request_elapsed, pc, attempt,
      sleep_left, exc, outcome, completion, result, fetched, all_offers, calls, sleeps, used_slots,
      sent_elapsed>>

\* program constants; one tick of the clock is one second
DEFAULT_REQUEST_DELAY == 2
DEFAULT_MAX_OFFERS == 50
request_delay == DEFAULT_REQUEST_DELAY
retry_delay == RetryDelay
seat_class == <<"E", "c", "o", "n", "o", "m", "y">>

\* Times are kept as the code uses them: as the time elapsed since they were
\* taken (time.time() - t), counted in ticks and capped at request_delay, beyond
\* which no comparison of the code tells two values apart.  A time of 0.0 (a
\* fresh limiter state) lies further back than request_delay.
LongAgo == request_delay

AllRoutes ==
    << [origin |-> <<"a", "m", "s">>, destination |-> <<"C", "D", "G">>],
       [origin |-> <<"C", "D", "G">>, destination |-> <<"M", "A", "D">>] >>

\* a departure date text: well formed or not (strptime raises ValueError), and its day
DateValues ==
    {[ok |-> TRUE, day |-> Today - 1], [ok |-> TRUE, day |-> Today + 1],
     [ok |-> FALSE, day |-> Today]}

\* what the fetch collaborator may return in a batch
GoodFlight(p) ==
    [price |-> PyStr(p), duration |-> PyStr(<<"1", "h">>), stops |-> PyInt(0),
     name |-> PyStr(<<"K", "L">>), departure |-> PyAbsent, arrival |-> PyAbsent]
BatchResults ==
    { Result(<<GoodFlight(<<"$", "9">>)>>),
      Result(<<[GoodFlight(<<>>) EXCEPT !.price = PyInt(9)]>>) }

\* what it may raise: a failure the collaborator reports as its own, and any
\* other exception; both are subclasses of Exception
ExceptionKinds == {"FetchError", "ValueError"}

\* the nested loops over routes and departure_dates, query_num counting from 1
RECURSIVE CreateTasks(_, _, _)
CreateTasks(rs, ds, query_num) ==
    IF rs = <<>> THEN <<>>
    ELSE [d \in 1..Len(ds) |->
             [origin |-> rs[1].origin, destination |-> rs[1].destination,
              departure_date |-> ds[d], query_num |-> query_num + d]]
         \o CreateTasks(Tail(rs), ds, query_num + Len(ds))

Tasks == 1..Len(tasks)

\* the slot taken from the 0-based position
context_idx_zero_based(query_num) == (query_num - 1) % max_concurrent
\* context_idx = query_num % self.max_concurrent
context_idx(query_num) == query_num % max_concurrent

\* days_before = (departure_dt - query_dt).days
days_before(t) == tasks[t].departure_date.day - Today

\* the expiry test off by one day
IsExpiredOffByOne(t) == days_before(t) < -1
\* if days_before < 0: the query is skipped
IsExpired(t) == days_before(t) < 0

\* the exponent counted from 1
wait_time_from_one(k) == retry_delay * Pow(2, k + 1)
\* wait_time = self.retry_delay * (2 ** attempt)
wait_time(k) == retry_delay * Pow(2, k)

\* the max_direct_durations argument of the constructor: the longest direct
\* flight of a route, in minutes
max_direct_durations ==
    {[from |-> <<"A", "M", "S">>, to |-> <<"C", "D", "G">>, minutes |-> 100]}

\* no normalizer call and no CSV destination
FileAbsent == [exists |-> FALSE, lines |-> <<>>]
NoCall == [fn |-> "none"]
\* nothing uploaded, main not run, no session in use
OtherIdle ==
    /\ s3 = NoCall /\ main = NoCall /\ session = NoCall /\ co = <<>>
IoIdle ==
    /\ field_in = PyAbsent /\ field_out = NoCall
    /\ file = FileAbsent /\ csv_call = NoCall
    /\ OtherIdle

cfg_vars ==
    <<entry, max_concurrent, max_retries, routes, departure_dates, max_offers_per_search>>

Init ==
    /\ entry \in {"async", "sync"}
    /\ max_concurrent \in 1..MaxConcurrent
    /\ max_retries \in 0..(IF max_concurrent = 1 THEN MaxSerialRetries ELSE MaxRetries)
    /\ max_offers_per_search = DEFAULT_MAX_OFFERS
    /\ routes \in {SubSeq(AllRoutes, 1, k) : k \in 0..Len(AllRoutes)}
    /\ departure_dates \in UNION {[1..n -> DateValues] : n \in 0..MaxQueries}
    /\ Len(routes) * Len(departure_dates) <= MaxQueries
    /\ bpc = "start"
    /\ tasks = <<>>
    /\ semaphore = 0
    /\ rate_limiter_elapsed = <<>>
    /\ last_request_elapsed = LongAgo
    /\ pc = <<>>
    /\ attempt = <<>>
    /\ sleep_left = <<>>
    /\ exc = <<>>
    /\ outcome = <<>>
    /\ completion = <<>>
    /\ result = <<>>
    /\ fetched = <<>>
    /\ all_offers = <<>>
    /\ calls = <<>>
    /\ sleeps = <<>>
    /\ used_slots = <<>>
    /\ sent_elapsed = <<>>
    /\ IoIdle

\* the per-task state of a batch whose queries were just created
FreshTasks(created) ==
    /\ tasks' = created
    /\ pc' = [t \in 1..Len(created) |-> "created"]
    /\ attempt' = [t \in 1..Len(created) |-> 0]
    /\ sleep_left' = [t \in 1..Len(created) |-> 0]
    /\ exc' = [t \in 1..Len(created) |-> "none"]
    /\ outcome' = [t \in 1..Len(created) |-> "none"]
    /\ completion' = <<>>
    /\ result' = [t \in 1..Len(created) |-> <<>>]
    /\ fetched' = [t \in 1..Len(created) |-> ResultNone]
    /\ calls' = [t \in 1..Len(created) |-> 0]
    /\ sleeps' = [t \in 1..Len(created) |-> <<>>]
    /\ used_slots' = [t \in 1..Len(created) |-> {}]

\* fetch_multiple_routes_async up to asyncio.gather: the semaphore, one limiter
\* state per context, one task per (route, date)
AsyncBegin ==
    /\ entry = "async" /\ bpc = "start"
    /\ bpc' = "running"
    /\ semaphore' = max_concurrent
    /\ rate_limiter_elapsed' = [i \in 0..(max_concurrent - 1) |-> LongAgo]
    /\ sent_elapsed' = [i \in 0..(max_concurrent - 1) |-> LongAgo]
    /\ FreshTasks(CreateTasks(routes, departure_dates, 0))
    /\ UNCHANGED <<cfg_vars, io_vars, last_request_elapsed, all_offers>>

\* the slot of task t
SlotOf(t) == context_idx(tasks[t].query_num)

\* One call of the fetch collaborator starts: get_flights_from_filter_async (or
\* get_flights_from_filter in an executor) is awaited.
AsyncStartRequest(t) ==
    /\ pc' = [pc EXCEPT ![t] = "fetching"]
    /\ calls' = [calls EXCEPT ![t] = @ + 1]
    /\ sent_elapsed' = [sent_elapsed EXCEPT ![SlotOf(t)] = 0]

\* a task that leaves without releasing the semaphore
AsyncFinishKeepsPermit(t, how, res, offers, permits) ==
    /\ pc' = [pc EXCEPT ![t] = "done"]
    /\ exc' = [exc EXCEPT ![t] = "none"]
    /\ outcome' = [outcome EXCEPT ![t] = how]
    /\ completion' = IF offers = <<>> THEN completion ELSE Append(completion, t)
    /\ fetched' = [fetched EXCEPT ![t] = res]
    /\ result' = [result EXCEPT ![t] = offers]
    /\ semaphore' = IF how = "exhausted" THEN permits ELSE permits + 1
\* The task leaves fetch_single_query: `async with` releases the semaphore.
AsyncFinish(t, how, res, offers, permits) ==
    /\ pc' = [pc EXCEPT ![t] = "done"]
    /\ exc' = [exc EXCEPT ![t] = "none"]
    /\ outcome' = [outcome EXCEPT ![t] = how]
    /\ completion' = IF offers = <<>> THEN completion ELSE Append(completion, t)
    /\ fetched' = [fetched EXCEPT ![t] = res]
    /\ result' = [result EXCEPT ![t] = offers]
    /\ semaphore' = permits + 1

\* the limiter's test elapsed < self.request_delay
LimiterMustSleep(elapsed) == elapsed < request_delay
\* a limiter that sleeps the whole delay whatever has elapsed
LimiterSleepsFullDelay(elapsed) == request_delay
\* sleep_time = self.request_delay - elapsed
LimiterSleepTime(elapsed) == request_delay - elapsed

\* no gate at all
CanAcquireAlways(value) == TRUE
\* `async with semaphore`: a task enters while the semaphore's value is positive
CanAcquire(value) == value > 0

\* A task gets the semaphore (tasks wait in creation order) and runs to its first
\* suspension: strptime, the expiry check, the rate limiter, the first request.
AsyncAcquire(t) ==
    /\ entry = "async" /\ bpc = "running"
    /\ pc[t] = "created"
    /\ CanAcquire(semaphore)
    /\ \A u \in Tasks : u < t => pc[u] # "created"
    /\ \/ /\ ~tasks[t].departure_date.ok
          /\ AsyncFinish(t, "raised", ResultNone, <<>>, semaphore - 1)
          /\ UNCHANGED <<rate_limiter_elapsed, sleep_left, calls, used_slots, sent_elapsed>>
       \/ /\ tasks[t].departure_date.ok
          /\ IsExpired(t)
          /\ AsyncFinish(t, "expired", ResultNone, <<>>, semaphore - 1)
          /\ UNCHANGED <<rate_limiter_elapsed, sleep_left, calls, used_slots, sent_elapsed>>
       \/ /\ tasks[t].departure_date.ok
          /\ ~IsExpired(t)
          /\ LimiterMustSleep(rate_limiter_elapsed[SlotOf(t)])
          /\ pc' = [pc EXCEPT ![t] = "rate_wait"]
          /\ sleep_left' = [sleep_left EXCEPT ![t] = LimiterSleepTime(rate_limiter_elapsed[SlotOf(t)])]
          /\ used_slots' = [used_slots EXCEPT ![t] = @ \cup {SlotOf(t)}]
          /\ semaphore' = semaphore - 1
          /\ UNCHANGED <<rate_limiter_elapsed, exc, outcome, completion, result, fetched, calls, sent_elapsed>>
       \/ /\ tasks[t].departure_date.ok
          /\ ~IsExpired(t)
          /\ ~LimiterMustSleep(rate_limiter_elapsed[SlotOf(t)])
          /\ rate_limiter_elapsed' = [rate_limiter_elapsed EXCEPT ![SlotOf(t)] = 0]
          /\ used_slots' = [used_slots EXCEPT ![t] = @ \cup {SlotOf(t)}]
          /\ AsyncStartRequest(t)
          /\ semaphore' = semaphore - 1
          /\ UNCHANGED <<sleep_left, exc, outcome, completion, result, fetched>>
    /\ UNCHANGED <<cfg_vars, io_vars, bpc, tasks, last_request_elapsed, attempt, all_offers, sleeps>>

\* asyncio.sleep(sleep_time) of the limiter is over: the slot's time is set and
\* the first request starts
AsyncRateWake(t) ==
    /\ entry = "async" /\ bpc = "running"
    /\ pc[t] = "rate_wait"
    /\ sleep_left[t] = 0
    /\ rate_limiter_elapsed' = [rate_limiter_elapsed EXCEPT ![SlotOf(t)] = 0]
    /\ used_slots' = [used_slots EXCEPT ![t] = @ \cup {SlotOf(t)}]
    /\ AsyncStartRequest(t)
    /\ sleep_left' = [sleep_left EXCEPT ![t] = 0]
    /\ UNCHANGED <<cfg_vars, io_vars, bpc, tasks, semaphore, last_request_elapsed, attempt,
                   exc, outcome, completion, result, fetched, all_offers, sleeps>>

\* how a fetched result ends the query
OutcomeOf(res, max_offers) ==
    IF NoFlights(res) THEN "empty"
    ELSE IF AssembleRaises(res, max_offers) THEN "error"
    ELSE "ok"

\* the collaborator returns: break, assemble the offers, return them
AsyncFetchReturn(t, res) ==
    /\ entry = "async" /\ bpc = "running"
    /\ pc[t] = "fetching"
    /\ AsyncFinish(t, OutcomeOf(res, max_offers_per_search), res,
                   AssembleOffers(tasks[t], seat_class, res, max_offers_per_search), semaphore)
    /\ UNCHANGED <<cfg_vars, io_vars, bpc, tasks, rate_limiter_elapsed, last_request_elapsed,
                   attempt, sleep_left, all_offers, calls, sleeps, used_slots, sent_elapsed>>

\* a handler that catches the collaborator's own failures only
HandledFetchErrorOnly(e) == e = "FetchError"
\* `except Exception as e` of the retry loop: the kinds it catches
Handled(e) == e \in ExceptionKinds

\* one attempt too many
RetryAgainOffByOne(k) == k <= max_retries
\* inside it, `if attempt < self.max_retries`: back off while attempts remain
RetryAgain(k) == k < max_retries

\* the collaborator raises e: back off, or re-raise into `except Exception: return []`
AsyncFetchRaise(t, e) ==
    /\ entry = "async" /\ bpc = "running"
    /\ pc[t] = "fetching"
    /\ \/ /\ Handled(e) /\ RetryAgain(attempt[t])
          /\ exc' = [exc EXCEPT ![t] = e]
          /\ pc' = [pc EXCEPT ![t] = "backoff"]
          /\ sleep_left' = [sleep_left EXCEPT ![t] = wait_time(attempt[t])]
          /\ sleeps' = [sleeps EXCEPT ![t] = Append(@, wait_time(attempt[t]))]
          /\ UNCHANGED <<semaphore, outcome, completion, result, fetched>>
       \/ /\ ~(Handled(e) /\ RetryAgain(attempt[t]))
          /\ AsyncFinish(t, "exhausted", ResultNone, <<>>, semaphore)
          /\ UNCHANGED <<sleep_left, sleeps>>
    /\ UNCHANGED <<cfg_vars, io_vars, bpc, tasks, rate_limiter_elapsed, last_request_elapsed,
                   attempt, all_offers, calls, used_slots, sent_elapsed>>

\* a retry that passes through the rate limiter again
AsyncBackoffWakeThroughLimiter(t) ==
    /\ entry = "async" /\ bpc = "running"
    /\ pc[t] = "backoff"
    /\ sleep_left[t] = 0
    /\ attempt' = [attempt EXCEPT ![t] = @ + 1]
    /\ exc' = [exc EXCEPT ![t] = "none"]
    /\ rate_limiter_elapsed' = [rate_limiter_elapsed EXCEPT ![SlotOf(t)] = 0]
    /\ AsyncStartRequest(t)
    /\ sleep_left' = [sleep_left EXCEPT ![t] = 0]
    /\ UNCHANGED <<cfg_vars, io_vars, bpc, tasks, semaphore,
                   last_request_elapsed, outcome, completion, result, fetched, all_offers, sleeps, used_slots>>
\* asyncio.sleep(wait_time) is over: continue with the next attempt
AsyncBackoffWake(t) ==
    /\ entry = "async" /\ bpc = "running"
    /\ pc[t] = "backoff"
    /\ sleep_left[t] = 0
    /\ attempt' = [attempt EXCEPT ![t] = @ + 1]
    /\ exc' = [exc EXCEPT ![t] = "none"]
    /\ AsyncStartRequest(t)
    /\ sleep_left' = [sleep_left EXCEPT ![t] = 0]
    /\ UNCHANGED <<cfg_vars, io_vars, bpc, tasks, semaphore, rate_limiter_elapsed,
                   last_request_elapsed, outcome, completion, result, fetched, all_offers, sleeps, used_slots>>

\* a gather that lets the first failure abort the collection
RECURSIVE CollectUntilFailure(_)
CollectUntilFailure(n) ==
    IF n = 0 THEN <<>>
    ELSE IF \E u \in 1..n : outcome[u] \in {"raised", "exhausted"} THEN <<>>
    ELSE CollectUntilFailure(n - 1) \o result[n]
\* the offers taken as the tasks return them (asyncio.as_completed)
RECURSIVE ByCompletion(_)
ByCompletion(k) ==
    IF k = 0 THEN <<>> ELSE ByCompletion(k - 1) \o result[completion[k]]
CollectByCompletion(n) == ByCompletion(Len(completion))
\* the loop over gather's results: a task that raised is logged, the others'
\* offers are appended in task order
RECURSIVE Collect(_)
Collect(n) ==
    IF n = 0 THEN <<>>
    ELSE Collect(n - 1) \o (IF outcome[n] = "raised" THEN <<>> ELSE result[n])

\* asyncio.gather(*tasks, return_exceptions=True) is done; collect and return
AsyncReturn ==
    /\ entry = "async" /\ bpc = "running"
    /\ \A t \in Tasks : pc[t] = "done"
    /\ all_offers' = Collect(Len(tasks))
    /\ bpc' = "returned"
    /\ UNCHANGED <<cfg_vars, io_vars, tasks, semaphore, rate_limiter_elapsed, last_request_elapsed,
                   pc, attempt, sleep_left, exc, outcome, completion, result, fetched, calls, sleeps, used_slots,
                   sent_elapsed>>

\* One tick of time passes, while a task sleeps or a request is out (a request
\* may take any time): every elapsed time grows, every sleep shrinks.
Tick ==
    /\ bpc = "running"
    /\ \E t \in Tasks : pc[t] \in {"rate_wait", "backoff", "fetching"}
    /\ rate_limiter_elapsed' =
           [i \in DOMAIN rate_limiter_elapsed |-> Min(rate_limiter_elapsed[i] + 1, LongAgo)]
    /\ sent_elapsed' = [i \in DOMAIN sent_elapsed |-> Min(sent_elapsed[i] + 1, LongAgo)]
    /\ last_request_elapsed' = Min(last_request_elapsed + 1, LongAgo)
    /\ sleep_left' = [t \in Tasks |-> Max(sleep_left[t] - 1, 0)]
    /\ UNCHANGED <<cfg_vars, io_vars, bpc, tasks, semaphore, pc, attempt, exc, outcome, completion, result, fetched,
                   all_offers, calls, sleeps, used_slots>>

\* fetch_multiple_routes up to its loops: all_offers = [], current_query = 0
SyncBegin ==
    /\ entry = "sync" /\ bpc = "start"
    /\ bpc' = "running"
    /\ all_offers' = <<>>
    /\ FreshTasks(CreateTasks(routes, departure_dates, 0))
    /\ UNCHANGED <<cfg_vars, io_vars, semaphore, rate_limiter_elapsed, last_request_elapsed, sent_elapsed>>

\* the loops reached query t: every query before it has returned
SyncTurn(t) ==
    /\ entry = "sync" /\ bpc = "running"
    /\ \A u \in Tasks : u < t => pc[u] = "done"

\* fetch_flight_offers returns offers: all_offers.extend(offers)
SyncFinish(t, how, res, offers) ==
    /\ pc' = [pc EXCEPT ![t] = "done"]
    /\ exc' = [exc EXCEPT ![t] = "none"]
    /\ outcome' = [outcome EXCEPT ![t] = how]
    /\ completion' = IF offers = <<>> THEN completion ELSE Append(completion, t)
    /\ fetched' = [fetched EXCEPT ![t] = res]
    /\ result' = [result EXCEPT ![t] = offers]
    /\ all_offers' = all_offers \o offers

\* fetch_flight_offers is called for query t and runs to its first blocking
\* call: strptime, the expiry check, _wait_for_rate_limit, the first request
SyncEnter(t) ==
    /\ SyncTurn(t)
    /\ pc[t] = "created"
    /\ \/ /\ ~tasks[t].departure_date.ok
          /\ pc' = [pc EXCEPT ![t] = "done"]
          /\ outcome' = [outcome EXCEPT ![t] = "raised"]
          /\ completion' = completion
          /\ exc' = [exc EXCEPT ![t] = "ValueError"]
          /\ bpc' = "raised"
          /\ UNCHANGED <<last_request_elapsed, sleep_left, result, fetched, all_offers, calls>>
       \/ /\ tasks[t].departure_date.ok
          /\ IsExpired(t)
          /\ SyncFinish(t, "expired", ResultNone, <<>>)
          /\ UNCHANGED <<bpc, last_request_elapsed, sleep_left, calls>>
       \/ /\ tasks[t].departure_date.ok
          /\ ~IsExpired(t)
          /\ LimiterMustSleep(last_request_elapsed)
          /\ pc' = [pc EXCEPT ![t] = "rate_wait"]
          /\ sleep_left' = [sleep_left EXCEPT ![t] = LimiterSleepTime(last_request_elapsed)]
          /\ UNCHANGED <<bpc, last_request_elapsed, exc, outcome, completion, result, fetched, all_offers, calls>>
       \/ /\ tasks[t].departure_date.ok
          /\ ~IsExpired(t)
          /\ ~LimiterMustSleep(last_request_elapsed)
          /\ last_request_elapsed' = 0
          /\ pc' = [pc EXCEPT ![t] = "fetching"]
          /\ calls' = [calls EXCEPT ![t] = @ + 1]
          /\ UNCHANGED <<bpc, sleep_left, exc, outcome, completion, result, fetched, all_offers>>
    /\ UNCHANGED <<cfg_vars, io_vars, tasks, semaphore, rate_limiter_elapsed, attempt, sleeps,
                   used_slots, sent_elapsed>>

\* time.sleep(sleep_time) of _wait_for_rate_limit is over
SyncRateWake(t) ==
    /\ SyncTurn(t)
    /\ pc[t] = "rate_wait"
    /\ sleep_left[t] = 0
    /\ last_request_elapsed' = 0
    /\ pc' = [pc EXCEPT ![t] = "fetching"]
    /\ calls' = [calls EXCEPT ![t] = @ + 1]
    /\ sleep_left' = [sleep_left EXCEPT ![t] = 0]
    /\ UNCHANGED <<cfg_vars, io_vars, bpc, tasks, semaphore, rate_limiter_elapsed, attempt,
                   exc, outcome, completion, result, fetched, all_offers, sleeps, used_slots, sent_elapsed>>

\* get_flights_from_filter returns
SyncFetchReturn(t, res) ==
    /\ SyncTurn(t)
    /\ pc[t] = "fetching"
    /\ SyncFinish(t, OutcomeOf(res, max_offers_per_search), res,
                  AssembleOffers(tasks[t], seat_class, res, max_offers_per_search))
    /\ UNCHANGED <<cfg_vars, io_vars, bpc, tasks, semaphore, rate_limiter_elapsed,
                   last_request_elapsed, attempt, sleep_left, calls, sleeps, used_slots, sent_elapsed>>

\* get_flights_from_filter raises e
SyncFetchRaise(t, e) ==
    /\ SyncTurn(t)
    /\ pc[t] = "fetching"
    /\ \/ /\ Handled(e) /\ RetryAgain(attempt[t])
          /\ exc' = [exc EXCEPT ![t] = e]
          /\ pc' = [pc EXCEPT ![t] = "backoff"]
          /\ sleep_left' = [sleep_left EXCEPT ![t] = wait_time(attempt[t])]
          /\ sleeps' = [sleeps EXCEPT ![t] = Append(@, wait_time(attempt[t]))]
          /\ UNCHANGED <<outcome, completion, result, fetched, all_offers>>
       \/ /\ ~(Handled(e) /\ RetryAgain(attempt[t]))
          /\ SyncFinish(t, "exhausted", ResultNone, <<>>)
          /\ UNCHANGED <<sleep_left, sleeps>>
    /\ UNCHANGED <<cfg_vars, io_vars, bpc, tasks, semaphore, rate_limiter_elapsed,
                   last_request_elapsed, attempt, calls, used_slots, sent_elapsed>>

\* time.sleep(wait_time) is over: continue with the next attempt
SyncBackoffWake(t) ==
    /\ SyncTurn(t)
    /\ pc[t] = "backoff"
    /\ sleep_left[t] = 0
    /\ attempt' = [attempt EXCEPT ![t] = @ + 1]
    /\ exc' = [exc EXCEPT ![t] = "none"]
    /\ pc' = [pc EXCEPT ![t] = "fetching"]
    /\ calls' = [calls EXCEPT ![t] = @ + 1]
    /\ sleep_left' = [sleep_left EXCEPT ![t] = 0]
    /\ UNCHANGED <<cfg_vars, io_vars, bpc, tasks, semaphore, rate_limiter_elapsed,
                   last_request_elapsed, outcome, completion, result, fetched, all_offers, sleeps, used_slots, sent_elapsed>>

\* the loops are over: return all_offers
SyncReturn ==
    /\ entry = "sync" /\ bpc = "running"
    /\ \A t \in Tasks : pc[t] = "done"
    /\ bpc' = "returned"
    /\ UNCHANGED <<cfg_vars, io_vars, tasks, semaphore, rate_limiter_elapsed, last_request_elapsed,
                   pc, attempt, sleep_left, exc, outcome, completion, result, fetched, all_offers, calls, sleeps,
                   used_slots, sent_elapsed>>

Next ==
    \/ AsyncBegin
    \/ \E t \in Tasks : AsyncAcquire(t)
    \/ \E t \in Tasks : AsyncRateWake(t)
    \/ \E t \in Tasks : \E res \in BatchResults : AsyncFetchReturn(t, res)
    \/ \E t \in Tasks : \E e \in ExceptionKinds : AsyncFetchRaise(t, e)
    \/ \E t \in Tasks : AsyncBackoffWake(t)
    \/ AsyncReturn
    \/ SyncBegin
    \/ \E t \in Tasks : SyncEnter(t)
    \/ \E t \in Tasks : SyncRateWake(t)
    \/ \E t \in Tasks : \E res \in BatchResults : SyncFetchReturn(t, res)
    \/ \E t \in Tasks : \E e \in ExceptionKinds : SyncFetchRaise(t, e)
    \/ \E t \in Tasks : SyncBackoffWake(t)
    \/ SyncReturn
    \/ Tick

vars == <<batch_vars, io_vars>>

Spec == Init /\ [][Next]_vars

\* ---------------------------------------------------------------------------
\* The single-query specification: one query with every kind of raw result and
\* every max_offers_per_search, through fetch_flight_offers and
\* fetch_flight_offers_async.

MaxFlights == 2         \* a raw result holds up to MaxFlights raw offers
MaxOffers == 2          \* max_offers_per_search ranges over 0..MaxOffers

\* raw offers: well formed, and with a sub-field missing, None, empty, or of
\* another type than text; the departure label tells them apart
RawFlights ==
    LET good == [GoodFlight(<<"$", "9">>) EXCEPT !.departure = PyStr(<<"a">>)]
    IN { good,
         [good EXCEPT !.price = PyAbsent, !.departure = PyStr(<<"b">>)],
         [good EXCEPT !.price = PyInt(9), !.departure = PyStr(<<"c">>)],
         [good EXCEPT !.name = PyInt(7), !.departure = PyStr(<<"d">>)],
         [good EXCEPT !.duration = PyAbsent, !.stops = PyStr(<<"U", "n", "k", "n", "o", "w", "n">>),
                      !.departure = PyStr(<<"e">>)],
         [good EXCEPT !.price = PyStr(<<>>), !.name = PyNone, !.departure = PyStr(<<"f">>)],
         [good EXCEPT !.stops = PyInt(-3), !.departure = PyStr(<<"g">>)],
         [good EXCEPT !.stops = PyStr(<<"U", "n", "k", "n", "o", "w", "n">>),
                      !.duration = PyStr(<<"9", "0", "m">>), !.departure = PyStr(<<"h">>)],
         [good EXCEPT !.stops = PyStr(<<"U", "n", "k", "n", "o", "w", "n">>),
                      !.duration = PyStr(<<"3", "0", "0", "m">>), !.departure = PyStr(<<"i">>)],
         [good EXCEPT !.duration = PyStr(<<"4", "0", "0", "m">>), !.departure = PyStr(<<"j">>)] }

RawResults ==
    {ResultNone} \cup {Result(fs) : fs \in UNION {[1..n -> RawFlights] : n \in 0..MaxFlights}}

InitOffers ==
    /\ entry \in {"async", "sync"}
    /\ max_concurrent = 1
    /\ max_retries = 0
    /\ max_offers_per_search \in 0..MaxOffers
    /\ routes \in {SubSeq(AllRoutes, k, k) : k \in 1..Len(AllRoutes)}
    /\ departure_dates = <<[ok |-> TRUE, day |-> Today + 1]>>
    /\ bpc = "start"
    /\ tasks = <<>>
    /\ semaphore = 0
    /\ rate_limiter_elapsed = <<>>
    /\ last_request_elapsed = LongAgo
    /\ pc = <<>>
    /\ attempt = <<>>
    /\ sleep_left = <<>>
    /\ exc = <<>>
    /\ outcome = <<>>
    /\ completion = <<>>
    /\ result = <<>>
    /\ fetched = <<>>
    /\ all_offers = <<>>
    /\ calls = <<>>
    /\ sleeps = <<>>
    /\ used_slots = <<>>
    /\ sent_elapsed = <<>>
    /\ IoIdle

NextOffers ==
    \/ AsyncBegin
    \/ \E t \in Tasks : AsyncAcquire(t)
    \/ \E t \in Tasks : \E res \in RawResults : AsyncFetchReturn(t, res)
    \/ AsyncReturn
    \/ SyncBegin
    \/ \E t \in Tasks : SyncEnter(t)
    \/ \E t \in Tasks : \E res \in RawResults : SyncFetchReturn(t, res)
    \/ SyncReturn

SpecOffers == InitOffers /\ [][NextOffers]_vars

\* ---------------------------------------------------------------------------
\* Properties of the batch

\* the tasks between acquiring the semaphore and the return of
\* fetch_flight_offers_async
GateHolders == {t \in Tasks : pc[t] \in {"rate_wait", "fetching", "backoff"}}

\* C1: in fetch_multiple_routes_async the tasks that hold the concurrency gate
\* (limiter waits, fetch attempts and backoff sleeps included) never number
\* more than max_concurrent, so never more than max_concurrent fetches are
\* started and unfinished; the semaphore counts the free places.
C1_GateBound ==
    (entry = "async" /\ bpc # "start") =>
        /\ Cardinality(GateHolders) <= max_concurrent
        /\ Cardinality({t \in Tasks : pc[t] = "fetching"}) <= max_concurrent
        /\ semaphore = max_concurrent - Cardinality(GateHolders)

\* the gate is full, a fetch is out and a task waits for the gate
C1_GateFull ==
    /\ entry = "async" /\ bpc = "running"
    /\ Cardinality(GateHolders) = max_concurrent
    /\ \E t \in Tasks : pc[t] = "fetching"
    /\ \E t \in Tasks : pc[t] = "created"

\* C2: any two fetch requests sent by tasks of the same rate-limiter slot, the
\* retry attempts of a task included, start at least request_delay apart: when
\* a request starts, the slot's latest request started request_delay ago or more.
C2_SlotSpacing ==
    [][\A t \in Tasks :
          (entry = "async" /\ calls'[t] > calls[t]) =>
              sent_elapsed[SlotOf(t)] >= request_delay]_vars

\* the offers of the queries that did not exhaust their retries, in task order
RECURSIVE OffersOfOthers(_)
OffersOfOthers(n) ==
    IF n = 0 THEN <<>>
    ELSE OffersOfOthers(n - 1) \o (IF outcome[n] = "exhausted" THEN <<>> ELSE result[n])

\* C3: in fetch_multiple_routes_async a query whose attempts all fail yields no
\* offers, every sibling still runs to completion, and the batch call returns,
\* without raising, exactly the offers of the other queries.
C3_ExhaustionIsolated ==
    entry = "async" =>
        /\ bpc # "raised"
        /\ \A t \in Tasks : outcome[t] = "exhausted" => result[t] = <<>>
        /\ bpc = "returned" =>
               /\ \A t \in Tasks : pc[t] = "done" /\ outcome[t] # "none"
               /\ all_offers = OffersOfOthers(Len(tasks))

\* the batch returned the offers of a query created after one that exhausted
C3_SiblingSurvives ==
    /\ entry = "async" /\ bpc = "returned"
    /\ \E t, u \in Tasks : t < u /\ outcome[t] = "exhausted" /\ outcome[u] = "ok"
    /\ all_offers # <<>>

SuccessOutcomes == {"ok", "empty", "error"}

\* C4: for one non-expired query the fetch collaborator is invoked at most
\* max_retries + 1 times, exactly max_retries + 1 times when every attempt
\* fails, and never again after the first attempt that succeeds; for both
\* fetch_flight_offers and fetch_flight_offers_async.
C4_AttemptBound ==
    /\ [](\A t \in Tasks :
             /\ calls[t] <= max_retries + 1
             /\ outcome[t] = "exhausted" => calls[t] = max_retries + 1
             /\ outcome[t] \in SuccessOutcomes => pc[t] = "done" /\ calls[t] = Len(sleeps[t]) + 1)
    /\ [][\A t \in Tasks : outcome[t] \in SuccessOutcomes => calls'[t] = calls[t]]_vars

\* a query failed max_retries + 1 >= 2 times
C4_AllAttemptsFailed ==
    \E t \in Tasks : outcome[t] = "exhausted" /\ max_retries >= 1 /\ calls[t] = max_retries + 1

\* C5: after failed attempt k < max_retries the task sleeps retry_delay * 2^k
\* and attempt k + 1 starts only when that sleep is over; after the final
\* failed attempt there is no sleep.
C5_Backoff ==
    /\ [](\A t \in Tasks :
             /\ Len(sleeps[t]) <= max_retries
             /\ \A k \in 0..(Len(sleeps[t]) - 1) : sleeps[t][k + 1] = retry_delay * 2^k
             /\ pc[t] = "backoff" => Len(sleeps[t]) = attempt[t] + 1
             /\ outcome[t] = "exhausted" => Len(sleeps[t]) = max_retries /\ sleep_left[t] = 0)
    /\ [][\A t \in Tasks :
             /\ (pc[t] = "fetching" /\ pc'[t] = "backoff") =>
                    sleep_left'[t] = retry_delay * 2^(attempt[t])
             /\ (pc[t] = "backoff" /\ pc'[t] # "backoff") =>
                    sleep_left[t] = 0 /\ attempt'[t] = attempt[t] + 1]_vars

\* a query slept after attempt 0 and after attempt 1 and then gave up
C5_TwoSleeps ==
    \E t \in Tasks : Len(sleeps[t]) = 2 /\ outcome[t] = "exhausted"

\* C6 as claimed: an exception that is neither a FetchError nor a
\* RateLimitError is terminal for the query: no backoff sleep follows it.
C6_OtherExceptionTerminal ==
    \A t \in Tasks : exc[t] = "ValueError" => pc[t] # "backoff"

\* C6: every exception the collaborator raises, of whatever kind, is followed
\* by a backoff sleep and a further attempt while attempts remain; a query gives
\* up only on the failure of attempt max_retries.
C6_AnyExceptionRetried ==
    \A t \in Tasks :
        /\ pc[t] = "backoff" => exc[t] \in ExceptionKinds /\ attempt[t] < max_retries
        /\ outcome[t] = "exhausted" => attempt[t] = max_retries

\* a query backs off after an exception that is not the collaborator's own
C6_OtherExceptionBacksOff ==
    \E t \in Tasks : pc[t] = "backoff" /\ exc[t] = "ValueError"

\* the departure date of query t is well formed and lies before the query date
IsPast(t) == tasks[t].departure_date.ok /\ tasks[t].departure_date.day < Today

\* C7: a query with negative days_before_departure is skipped: no fetch, no
\* sleep, the limiter is not entered and its times stay as they are, and the
\* query returns an empty list while the batch goes on.
C7_ExpiredSkipped ==
    /\ [](\A t \in Tasks :
             IsPast(t) =>
                 /\ calls[t] = 0 /\ sleeps[t] = <<>> /\ used_slots[t] = {}
                 /\ pc[t] \in {"created", "done"}
                 /\ pc[t] = "done" => outcome[t] = "expired" /\ result[t] = <<>>)
    /\ [][\A t \in Tasks :
             (IsPast(t) /\ pc[t] = "created" /\ pc'[t] # "created") =>
                 /\ rate_limiter_elapsed' = rate_limiter_elapsed
                 /\ last_request_elapsed' = last_request_elapsed
                 /\ sent_elapsed' = sent_elapsed
                 /\ bpc' = bpc]_vars

\* an expired query was skipped while its slot held the time of another query
C7_SkippedOnUsedSlot ==
    /\ entry = "async"
    /\ \E t \in Tasks :
          outcome[t] = "expired" /\ rate_limiter_elapsed[SlotOf(t)] < LongAgo

\* C8: fetch_multiple_routes_async creates |routes| x |dates| tasks, routes in
\* the outer loop and dates in the inner; the task at 1-based position i is
\* bound to slot i mod max_concurrent, which lies in 0..max_concurrent-1, and
\* uses no other slot.
C8_SlotBinding ==
    (entry = "async" /\ bpc # "start") =>
        /\ Len(tasks) = Len(routes) * Len(departure_dates)
        /\ DOMAIN rate_limiter_elapsed = 0..(max_concurrent - 1)
        /\ \A i \in Tasks :
              LET r == ((i - 1) \div Len(departure_dates)) + 1
                  d == ((i - 1) % Len(departure_dates)) + 1
              IN /\ tasks[i].origin = routes[r].origin
                 /\ tasks[i].destination = routes[r].destination
                 /\ tasks[i].departure_date = departure_dates[d]
                 /\ tasks[i].query_num = i
                 /\ (i % max_concurrent) \in 0..(max_concurrent - 1)
                 /\ used_slots[i] \subseteq {i % max_concurrent}

\* the second of two tasks used slot 0 of two slots
C8_WrappedSlot ==
    /\ entry = "async" /\ max_concurrent = 2
    /\ \E t \in Tasks : t = 2 /\ used_slots[t] = {0}

\* ---------------------------------------------------------------------------
\* Properties of the offer assembler

\* query t returned after the collaborator gave it a result object
Fetched(t) == pc[t] = "done" /\ fetched[t].t = "result"
\* min(n, m) for its n raw offers and m = max_offers_per_search
KeptCount(t) == Min(Len(fetched[t].flights), max_offers_per_search)

\* C9: for a fetched raw result of n offers and max_offers = m >= 0 the query
\* returns the first min(n, m) raw offers in raw order, the i-th of them with
\* offer_rank = i.
C9_RankedPrefix ==
    \A t \in Tasks :
        Fetched(t) =>
            /\ Len(result[t]) = KeptCount(t)
            /\ \A i \in 1..Len(result[t]) :
                  /\ result[t][i].offer_rank = i
                  /\ result[t][i].departure_time = fetched[t].flights[i].departure

\* C10: a raw offer whose price, duration, stops or airline is missing, empty
\* or of an unexpected type is kept: the query still returns min(n, max_offers)
\* offers, the bad sub-field at its default (price 0.0 in USD, airline
\* "Unknown", duration 0, stops -1).
C10_BadFieldKeepsOffer ==
    \A t \in Tasks :
        (Fetched(t) /\ fetched[t].flights # <<>>) =>
            /\ Len(result[t]) = KeptCount(t)
            /\ \A i \in 1..Len(result[t]) :
                  LET raw == fetched[t].flights[i]
                      offer == result[t][i]
                  IN  /\ (raw.price.t # "str" \/ raw.price.s = <<>>) =>
                             offer.price = [num |-> 0, den |-> 1] /\ offer.currency = "USD"
                      /\ (raw.name.t # "str" \/ raw.name.s = <<>>) =>
                             offer.airline = <<"U", "n", "k", "n", "o", "w", "n">>
                      /\ raw.duration.t = "absent" => offer.flight_duration = 0
                      /\ raw.stops.t = "str" => offer.stops = -1

\* ---------------------------------------------------------------------------
\* The order of the combined result

\* C15 as claimed: the combined result of fetch_multiple_routes_async holds the
\* offers of a task that completed earlier before those of a task that
\* completed later.
C15_CompletionOrder ==
    (entry = "async" /\ bpc = "returned") => all_offers = ByCompletion(Len(completion))

\* the offers of queries 1..n, query after query
RECURSIVE InQueryOrder(_)
InQueryOrder(n) ==
    IF n = 0 THEN <<>> ELSE InQueryOrder(n - 1) \o result[n]

\* C15: the combined result of fetch_multiple_routes_async is in the original
\* query order (routes in the outer loop, dates in the inner), whatever the
\* order in which the tasks completed.
C15_QueryOrder ==
    (entry = "async" /\ bpc = "returned") => all_offers = InQueryOrder(Len(tasks))

\* query 2 returned its offers before query 1 returned other offers
C15_CompletedOutOfOrder ==
    /\ entry = "async" /\ bpc = "returned"
    /\ completion = <<2, 1>>
    /\ result[1] # result[2]

\* ---------------------------------------------------------------------------
\* The field normalizers on their own: one value, handed to _parse_stops or to
\* _parse_price.

MaxTokens == 3          \* a text is made of up to MaxTokens pieces


Tokens ==
    { <<"N", "o", "n", "s", "t", "o", "p">>, <<"D", "I", "R", "E", "C", "T">>,
      <<"U", "n", "k", "n", "o", "w", "n">>, <<"s", "t", "o", "p">>, <<"s">>, <<" ">>,
      <<"2">>, <<"1">>, <<Sup2>>, <<"$">>, <<"EUR">>, <<"A">>, <<",">>, <<".">> }

RECURSIVE Flatten(_)
Flatten(ts) == IF ts = <<>> THEN <<>> ELSE Head(ts) \o Flatten(Tail(ts))

TokenTexts == {Flatten(ts) : ts \in UNION {[1..n -> Tokens] : n \in 0..MaxTokens}}

\* the texts of the normalizers' documentation
Price1299 == <<"$", "1", ",", "2", "9", "9", ".", "5", "0">>
PriceEuro199 == <<"EUR", "1", "9", "9">>
Price299USD == <<"2", "9", "9", " ", "U", "S", "D">>
PriceCad5 == <<"C", "$", "5">>
TwoStops == <<"2", " ", "s", "t", "o", "p", "s">>
ExampleTexts == {Price1299, PriceEuro199, Price299USD, PriceCad5, TwoStops}

\* what a normalizer may be handed: None, an integer, a text
ParseInputs ==
    {PyNone, PyInt(-3), PyInt(0), PyInt(2)}
        \cup {PyStr(x) : x \in TokenTexts \cup ExampleTexts}

\* no batch is run
BatchIdle ==
    /\ entry = "none"
    /\ max_concurrent = 1
    /\ max_retries = 0
    /\ max_offers_per_search = DEFAULT_MAX_OFFERS
    /\ routes = <<>>
    /\ departure_dates = <<>>
    /\ bpc = "start"
    /\ tasks = <<>>
    /\ semaphore = 0
    /\ rate_limiter_elapsed = <<>>
    /\ last_request_elapsed = LongAgo
    /\ pc = <<>>
    /\ attempt = <<>>
    /\ sleep_left = <<>>
    /\ exc = <<>>
    /\ outcome = <<>>
    /\ completion = <<>>
    /\ result = <<>>
    /\ fetched = <<>>
    /\ all_offers = <<>>
    /\ calls = <<>>
    /\ sleeps = <<>>
    /\ used_slots = <<>>
    /\ sent_elapsed = <<>>

InitParse ==
    /\ BatchIdle
    /\ field_in \in ParseInputs
    /\ field_out = NoCall
    /\ file = FileAbsent
    /\ csv_call = NoCall
    /\ OtherIdle

\* what a call left behind: the exception escaped, or the value returned
Raised(fn) == [fn |-> fn, raised |-> TRUE]
Returned(fn, value) == [fn |-> fn, raised |-> FALSE, value |-> value]

\* self._parse_stops(field_in)
ParseStops ==
    /\ field_out = NoCall
    /\ field_out' = IF _parse_stops_raises(field_in) THEN Raised("_parse_stops")
                    ELSE Returned("_parse_stops", _parse_stops(field_in))
    /\ UNCHANGED <<batch_vars, field_in, file, csv_call, other_vars>>

\* self._parse_price(field_in)
ParsePrice ==
    /\ field_out = NoCall
    /\ field_out' = IF _parse_price_raises(field_in) THEN Raised("_parse_price")
                    ELSE Returned("_parse_price", _parse_price(field_in))
    /\ UNCHANGED <<batch_vars, field_in, file, csv_call, other_vars>>

NextParse == ParseStops \/ ParsePrice

SpecParse == InitParse /\ [][NextParse]_vars

\* ---------------------------------------------------------------------------
\* Properties of the field normalizers

StopsCall == field_out.fn = "_parse_stops"
PriceCall == field_out.fn = "_parse_price" /\ field_in.t = "str"

\* the text is '<N> stop' or '<N> stops', blanks allowed after N
IsNStops(text) ==
    LET e == DigitRunEnd(text, 1)
        rest == SubSeq(text, SpaceRunEnd(text, e + 1) + 1, Len(text))
    IN  e >= 1 /\ rest \in {<<"s", "t", "o", "p">>, <<"s", "t", "o", "p", "s">>}
SaysDirect(text) ==
    \/ Contains(text, <<"n", "o", "n", "s", "t", "o", "p">>)
    \/ Contains(text, <<"d", "i", "r", "e", "c", "t">>)
AllDecimal(text) == text # <<>> /\ \A i \in 1..Len(text) : IsDigit(text[i])
NoDecimal(text) == \A i \in 1..Len(text) : ~IsDigit(text[i])

\* C19: the stops parser never raises; it returns an integer unchanged, and for
\* text, whatever its case: 0 when it contains nonstop or direct, the integer
\* of a bare digit string, N for '<N> stop(s)', and -1 for 'unknown', for an
\* empty or missing value and for text it cannot parse.
C19_StopsParser ==
    StopsCall =>
        /\ ~field_out.raised
        /\ field_in.t = "int" => field_out.value = field_in.n
        /\ field_in.t = "none" => field_out.value = -1
        /\ field_in.t = "str" =>
               LET text == Lower(Strip(field_in.s))
                   v == field_out.value
               IN  /\ text = <<>> => v = -1
                   /\ SaysDirect(text) => v = 0
                   /\ AllDecimal(text) => v = ToInt(text)
                   /\ text = <<"u", "n", "k", "n", "o", "w", "n">> => v = -1
                   /\ (IsNStops(text) /\ ~SaysDirect(text)) =>
                          v = ToInt(SubSeq(text, 1, DigitRunEnd(text, 1)))
                   /\ (NoDecimal(text) /\ ~SaysDirect(text)) => v = -1

DollarA == <<"A", "$">>
DollarC == <<"C", "$">>
\* no symbol of the table other than $, A$, C$ occurs in the text
DollarsOnly(text) ==
    \A k \in 1..Len(currency_symbols) :
        Contains(text, currency_symbols[k].symbol) =>
            currency_symbols[k].symbol \in {<<"$">>, DollarA, DollarC}

\* C14: A$ and C$ are matched before the generic $: a price text with A$
\* yields AUD, one with C$ yields CAD, and neither yields USD.
C14_MultiCharSymbols ==
    (PriceCall /\ ~field_out.raised) =>
        LET text == Strip(field_in.s)
            currency == field_out.value.currency
        IN  /\ (Contains(text, DollarA) \/ Contains(text, DollarC)) => currency # "USD"
            /\ (Contains(text, DollarA) /\ ~Contains(text, DollarC) /\ DollarsOnly(text)) =>
                   currency = "AUD"
            /\ (Contains(text, DollarC) /\ ~Contains(text, DollarA) /\ DollarsOnly(text)) =>
                   currency = "CAD"

Amount(num, den) == [num |-> num, den |-> den]

\* C20: the price parser never fails on text: USD when no symbol of the table
\* occurs, 0.0 when no number occurs, otherwise the first number with its
\* thousands separators removed; '$1,299.50' is 1299.50 USD, the euro sign and
\* 199 is 199.0 EUR, '299 USD' is 299.0 USD, '' is 0.0 USD.
C20_PriceParser ==
    PriceCall =>
        /\ ~field_out.raised
        /\ LET text == field_in.s
               out == field_out.value
               plain == RemoveAll(text, <<",">>)
           IN  /\ (\A k \in 1..Len(currency_symbols) :
                       ~Contains(text, currency_symbols[k].symbol)) => out.currency = "USD"
               /\ NoDecimal(text) => out.price = Amount(0, 1)
               /\ AllDecimal(plain) => out.price = Amount(ToInt(plain), 1)
               /\ text = Price1299 => out = [price |-> Amount(12995, 10), currency |-> "USD"]
               /\ text = PriceEuro199 => out = [price |-> Amount(199, 1), currency |-> "EUR"]
               /\ text = Price299USD => out = [price |-> Amount(299, 1), currency |-> "USD"]
               /\ text = <<>> => out = [price |-> Amount(0, 1), currency |-> "USD"]

\* '$1,299.50' was parsed
C20_ParsedThousands ==
    PriceCall /\ field_in.s = Price1299 /\ field_out.value.price = Amount(12995, 10)

\* ---------------------------------------------------------------------------
\* Properties of the stops of an assembled offer

\* the offers query t returned, with the raw offer each was made of
OfferIndex(t) == 1..Len(result[t])
ParsedStops(t, i) == _parse_stops(Getattr(fetched[t].flights[i], "stops", PyNone))

\* C11: the stops of every assembled offer is >= 0 or exactly -1, whatever the
\* raw stops value was.
C11_StopsRange ==
    \A t \in Tasks : \A i \in OfferIndex(t) :
        result[t][i].stops >= 0 \/ result[t][i].stops = -1

\* stop inference from the duration: 0 up to the longest direct flight of the
\* route (either direction), 240 minutes for a route without profile, else 1
InferredStops(query, duration) ==
    LET known == {e \in max_direct_durations :
                     {e.from, e.to} = {Upper(query.origin), Upper(query.destination)}}
        limit == IF known = {} THEN 240 ELSE (CHOOSE e \in known : TRUE).minutes
    IN  IF duration <= limit THEN 0 ELSE 1

\* C12: when the stops parser reports 0 and the duration exceeds 360 minutes,
\* the stops of the offer is the inference result (1 for 400 minutes on a
\* route whose longest direct flight is 100 minutes).
C12_SanityOverride ==
    \A t \in Tasks : \A i \in OfferIndex(t) :
        (ParsedStops(t, i) = 0 /\ result[t][i].flight_duration > 360) =>
            result[t][i].stops = InferredStops(tasks[t], result[t][i].flight_duration)

\* C13: when the stops parser reports -1, the stops of the offer is inferred
\* from the duration: against the longest direct flight of the route when the
\* route (in either direction) has a profile, against 240 minutes otherwise.
C13_StopInference ==
    \A t \in Tasks : \A i \in OfferIndex(t) :
        ParsedStops(t, i) = -1 =>
            result[t][i].stops = InferredStops(tasks[t], result[t][i].flight_duration)

\* ---------------------------------------------------------------------------
\* save_to_csv on one destination.  A file is its lines; a line is what was
\* written (the header or a record) and its cells (the text of a cell is left
\* as the value csv writes).

MaxRecords == 2         \* a record set holds up to MaxRecords offers
MaxLines == 4           \* the destination holds up to MaxLines lines

SCHEMA ==
    << "origin", "destination", "departure_date", "query_date", "days_before_departure",
       "airline", "price", "currency", "stops", "flight_duration", "cabin", "offer_rank",
       "departure_time", "arrival_time", "source" >>

\* writer.writeheader()
HeaderLine == [kind |-> "header", cells |-> SCHEMA]
\* writer.writerows(offers): the cells of each offer in the order of fieldnames
RowLine(offer) == [kind |-> "row", cells |-> [k \in 1..Len(SCHEMA) |-> offer[SCHEMA[k]]]]
RowLines(offers) == [i \in 1..Len(offers) |-> RowLine(offers[i])]

\* the offers a query assembles
CsvOffers ==
    AssembleOffers([origin |-> AllRoutes[1].origin, destination |-> AllRoutes[1].destination,
                    departure_date |-> [ok |-> TRUE, day |-> Today + 1], query_num |-> 1],
                   seat_class,
                   Result([i \in 1..MaxRecords |-> GoodFlight(<<"$", Digits[i + 1]>>)]),
                   MaxRecords)
RecordSets ==
    UNION {[1..n -> {CsvOffers[i] : i \in 1..Len(CsvOffers)}] : n \in 0..MaxRecords}

\* a line that this program did not write
ForeignLine == [kind |-> "other", cells |-> <<"x">>]
\* what the destination may be before the first call
InitialFiles ==
    {FileAbsent} \cup
    {[exists |-> TRUE, lines |-> ls] :
        ls \in {<<>>, <<HeaderLine>>, <<HeaderLine, RowLine(CsvOffers[1])>>, <<ForeignLine>>}}

InitCsv ==
    /\ BatchIdle
    /\ field_in = PyAbsent /\ field_out = NoCall
    /\ file \in InitialFiles
    /\ csv_call = NoCall
    /\ OtherIdle

\* if not offers: return output_path
NoOffersNever(offers) == FALSE
NoOffers(offers) == offers = <<>>

\* mode = 'a' if append and file_exists else 'w'
OpenModeAppendIfExists(append, file_exists) == IF file_exists THEN "a" ELSE "w"
OpenMode(append, file_exists) == IF append /\ file_exists THEN "a" ELSE "w"

\* if mode == 'w' or not file_exists: writer.writeheader()
WritesHeaderAlways(mode, file_exists) == TRUE
WritesHeaderIfExists(mode, file_exists) == file_exists
WritesHeader(mode, file_exists) == mode = "w" \/ ~file_exists

\* the file that save_to_csv(offers, output_path, append) leaves
Saved(offers, append) ==
    IF NoOffers(offers) THEN file
    ELSE LET file_exists == file.exists
             mode == OpenMode(append, file_exists)
             opened == IF mode = "w" THEN <<>> ELSE file.lines
             header == IF WritesHeader(mode, file_exists) THEN <<HeaderLine>> ELSE <<>>
         IN  [exists |-> TRUE, lines |-> opened \o header \o RowLines(offers)]

\* one call of save_to_csv; `again` tells that the call before it had the same
\* arguments
SaveToCsv(offers, append) ==
    /\ Len(Saved(offers, append).lines) <= MaxLines
    /\ file' = Saved(offers, append)
    /\ csv_call' = [fn |-> "save_to_csv", offers |-> offers, append |-> append,
                    again |-> /\ csv_call # NoCall
                              /\ csv_call.offers = offers /\ csv_call.append = append]
    /\ UNCHANGED <<batch_vars, field_in, field_out, other_vars>>

NextCsv == \E offers \in RecordSets : \E append \in BOOLEAN : SaveToCsv(offers, append)

SpecCsv == InitCsv /\ [][NextCsv]_vars

SameLines(a, b) ==
    /\ Len(a) = Len(b)
    /\ \A i \in 1..Len(a) : a[i].kind = b[i].kind /\ a[i].cells = b[i].cells
SameFile(a, b) == a.exists = b.exists /\ SameLines(a.lines, b.lines)
IsHeader(line) == line.kind = "header" /\ line.cells = SCHEMA
IsRowOf(line, offer) ==
    /\ line.kind = "row"
    /\ Len(line.cells) = Len(SCHEMA)
    /\ \A k \in 1..Len(SCHEMA) : line.cells[k] = offer[SCHEMA[k]]
AreRowsOf(lines, offers) ==
    /\ Len(lines) = Len(offers)
    /\ \A i \in 1..Len(lines) : IsRowOf(lines[i], offers[i])
HeaderCount(lines) == Cardinality({i \in 1..Len(lines) : IsHeader(lines[i])})
IsSave(call) == call.fn = "save_to_csv"

\* C16: a call of save_to_csv with a non-empty record set leaves the
\* destination existing and made of, in this order: the lines it held before
\* (all of them in append mode on an existing destination, none otherwise), one
\* header line exactly when the call is in overwrite mode or the destination
\* did not exist, and one row per record, in order.
C16_HeaderRule ==
    [][(IsSave(csv_call') /\ csv_call'.offers # <<>>) =>
        LET offers == csv_call'.offers
            kept == IF csv_call'.append /\ file.exists THEN Len(file.lines) ELSE 0
            hdr == IF ~csv_call'.append \/ ~file.exists THEN 1 ELSE 0
        IN  /\ file'.exists
            /\ Len(file'.lines) = kept + hdr + Len(offers)
            /\ SameLines(SubSeq(file'.lines, 1, kept), SubSeq(file.lines, 1, kept))
            /\ hdr = 1 => IsHeader(file'.lines[kept + 1])
            /\ AreRowsOf(SubSeq(file'.lines, kept + hdr + 1, kept + hdr + Len(offers)), offers)
            /\ HeaderCount(file'.lines) = HeaderCount(SubSeq(file.lines, 1, kept)) + hdr]_vars

\* an append of records to an existing destination without a header: the
\* foreign line is kept, the rows follow it, no header was written
C16_AppendedToExisting ==
    /\ IsSave(csv_call) /\ csv_call.append /\ csv_call.offers # <<>>
    /\ Len(file.lines) = 1 + Len(csv_call.offers)
    /\ file.lines[1].kind = "other"
    /\ HeaderCount(file.lines) = 0

\* C17: a call of save_to_csv with an empty record collection, in overwrite or
\* in append mode, leaves the destination as it was: the same lines if it
\* existed, absent if it was absent.
C17_EmptyIsNoOp ==
    [][(IsSave(csv_call') /\ csv_call'.offers = <<>>) => SameFile(file', file)]_vars

\* an overwrite with no records after which the existing header and row are
\* still there
C17_EmptyOverwriteKept ==
    /\ IsSave(csv_call) /\ ~csv_call.append /\ csv_call.offers = <<>>
    /\ file.exists /\ Len(file.lines) = 2

\* C18: after an overwrite with a non-empty record set, the first as well as
\* the repeated one, the destination holds exactly one header line and one
\* row per record; the repeated overwrite leaves the content as the first
\* left it.
C18_AfterOverwrite ==
    (IsSave(csv_call) /\ ~csv_call.append /\ csv_call.offers # <<>>) =>
        /\ HeaderCount(file.lines) = 1
        /\ Len(file.lines) = 1 + Len(csv_call.offers)
C18_RepeatedOverwrite ==
    (IsSave(csv_call') /\ csv_call'.again /\ ~csv_call'.append /\ csv_call'.offers # <<>>) =>
        SameFile(file', file)
C18_OverwriteIdempotent == []C18_AfterOverwrite /\ [][C18_RepeatedOverwrite]_vars

\* the same non-empty record set has been written twice in overwrite mode
C18_WrittenTwice ==
    /\ IsSave(csv_call) /\ csv_call.again /\ ~csv_call.append /\ csv_call.offers # <<>>
    /\ file.exists

\* save_to_csv on a destination that does not exist before the first call
InitCsvFresh == InitCsv /\ file = FileAbsent

SpecCsvFresh == InitCsvFresh /\ [][NextCsv]_vars

\* C32: starting from an absent destination, after any sequence of
\* save_to_csv calls on it (overwrite or append, empty or non-empty record
\* sets) the destination is still absent, or it exists and holds exactly one
\* header line, which is its first line, followed only by data rows.
C32_OneHeaderFirst ==
    \/ ~file.exists /\ file.lines = <<>>
    \/ /\ file.exists
       /\ Len(file.lines) >= 1
       /\ IsHeader(file.lines[1])
       /\ HeaderCount(file.lines) = 1
       /\ \A i \in 2..Len(file.lines) :
             file.lines[i].kind = "row" /\ Len(file.lines[i].cells) = Len(SCHEMA)

\* records were appended to a destination that an earlier call had created:
\* more rows than one call writes follow the header
C32_AppendedAfterCreate ==
    /\ IsSave(csv_call) /\ csv_call.append /\ csv_call.offers # <<>>
    /\ file.exists /\ Len(file.lines) > 1 + MaxRecords

\* ---------------------------------------------------------------------------
\* _parse_duration on its own: one text handed to it.

MaxPieces == 3          \* a duration text is made of up to MaxPieces pieces

DurationPieces ==
    { <<"2">>, <<"3">>, <<"0">>, <<" ">>, <<"h">>, <<"H", "R">>, <<"h", "o", "u", "r">>,
      <<"m">>, <<"m", "i", "n">>, <<"x">> }

\* the texts of the parser's documentation
Duration2hr30min == <<"2", " ", "h", "r", " ", "3", "0", " ", "m", "i", "n">>
Duration1h45m == <<"1", "h", " ", "4", "5", "m">>
Duration1h == <<"1", "h">>
Duration45m == <<"4", "5", "m">>
DurationTexts ==
    {Flatten(ts) : ts \in UNION {[1..n -> DurationPieces] : n \in 0..MaxPieces}}
        \cup {Duration2hr30min, Duration1h45m, Duration1h, Duration45m}

InitDuration ==
    /\ BatchIdle
    /\ field_in \in {PyStr(x) : x \in DurationTexts}
    /\ field_out = NoCall
    /\ file = FileAbsent
    /\ csv_call = NoCall
    /\ OtherIdle

\* self._parse_duration(field_in): no statement of it raises on a text
ParseDuration ==
    /\ field_out = NoCall
    /\ field_out' = Returned("_parse_duration", _parse_duration(field_in.s))
    /\ UNCHANGED <<batch_vars, field_in, file, csv_call, other_vars>>

NextDuration == ParseDuration

SpecDuration == InitDuration /\ [][NextDuration]_vars

DurationCall == field_out # NoCall /\ field_out.fn = "_parse_duration"

\* the digit runs of text that stand in front of a unit starting with letter c,
\* blanks allowed in between: pairs <<first, last>>
RunsBefore(text, c) ==
    {r \in (1..Len(text)) \X (1..Len(text)) :
        /\ r[1] <= r[2]
        /\ \A k \in r[1]..r[2] : text[k] \in {Digits[d] : d \in 1..Len(Digits)}
        /\ r[1] = 1 \/ text[r[1] - 1] \notin {Digits[d] : d \in 1..Len(Digits)}
        /\ \E u \in (r[2] + 1)..Len(text) :
              /\ text[u] = c
              /\ \A k \in (r[2] + 1)..(u - 1) : text[k] = " "}
\* the number in front of the first such unit, 0 when there is none
NumberBefore(text, c) ==
    IF RunsBefore(text, c) = {} THEN 0
    ELSE LET r == CHOOSE x \in RunsBefore(text, c) : \A y \in RunsBefore(text, c) : x[1] <= y[1]
         IN  ToInt(SubSeq(text, r[1], r[2]))

\* C21: on every text the duration parser returns, without raising,
\* hours * 60 + minutes, where hours is the number in front of the first
\* hr/hour/h unit and minutes the number in front of the first min/minute/m
\* unit of the text in lower case, each 0 when there is none; "2 hr 30 min"
\* gives 150, "1h" 60, "45m" 45 and the empty text 0.
C21_DurationParser ==
    DurationCall =>
        /\ ~field_out.raised
        /\ field_out.value =
              NumberBefore(Lower(field_in.s), "h") * 60 + NumberBefore(Lower(field_in.s), "m")
        /\ field_in.s = Duration2hr30min => field_out.value = 150
        /\ field_in.s = Duration1h => field_out.value = 60
        /\ field_in.s = Duration45m => field_out.value = 45
        /\ field_in.s = <<>> => field_out.value = 0

\* the documented text with both units has been parsed to 150 minutes
C21_ParsedHoursAndMinutes ==
    DurationCall /\ field_in.s = Duration2hr30min /\ field_out.value = 150

\* ---------------------------------------------------------------------------
\* upload_to_s3 of the CSV destination, after at most one save_to_csv.

\* a credential as given: not given, empty, a key
CredentialValues == {PyNone, PyStr(<<>>), PyStr(<<"k">>)}
\* what boto3 does in this call: the upload succeeds, upload_file raises, or
\* boto3.client raises before any upload
StorageOutcomes ==
    {"uploaded", "upload_file:ClientError", "upload_file:BotoCoreError",
     "upload_file:Exception", "client:Exception"}
UploadFileCalled(storage) == storage # "client:Exception"

\* access_key_id or os.getenv('AWS_ACCESS_KEY_ID')
OrEnv(param, env) == IF Truthy(param) THEN param ELSE env

\* if not aws_access_key_id or not aws_secret_access_key
CredentialsMissingBoth(aws_access_key_id, aws_secret_access_key) ==
    ~Truthy(aws_access_key_id) /\ ~Truthy(aws_secret_access_key)
CredentialsMissing(aws_access_key_id, aws_secret_access_key) ==
    ~Truthy(aws_access_key_id) \/ ~Truthy(aws_secret_access_key)

\* self.upload_to_s3(file_path, bucket, access_key_id = key, secret_access_key =
\* secret) with the environment's AWS_ACCESS_KEY_ID and AWS_SECRET_ACCESS_KEY:
\* the value returned, and the number of upload_file calls made
UploadCall(key, secret, env_key, env_secret, storage, file_exists) ==
    LET aws_access_key_id == OrEnv(key, env_key)
        aws_secret_access_key == OrEnv(secret, env_secret)
        early == ~file_exists \/ CredentialsMissing(aws_access_key_id, aws_secret_access_key)
    IN  [fn |-> "upload_to_s3", key |-> key, secret |-> secret,
         env_key |-> env_key, env_secret |-> env_secret, storage |-> storage,
         raised |-> FALSE,
         returned |-> ~early /\ storage = "uploaded",
         upload_file_calls |-> IF ~early /\ UploadFileCalled(storage) THEN 1 ELSE 0]
UploadToS3(key, secret, env_key, env_secret, storage) ==
    /\ s3' = UploadCall(key, secret, env_key, env_secret, storage, file.exists)
    /\ UNCHANGED <<batch_vars, field_in, field_out, file, csv_call, main, session, co>>

InitSink == InitCsv

NextSink ==
    \/ /\ csv_call = NoCall /\ s3 = NoCall
       /\ \E offers \in RecordSets : \E append \in BOOLEAN : SaveToCsv(offers, append)
    \/ \E key \in {PyNone, PyStr(<<"k">>)} : \E env_key \in CredentialValues :
           \E sec \in {<<PyNone, PyNone>>, <<PyStr(<<"k">>), PyNone>>, <<PyNone, PyStr(<<"k">>)>>} :
               \E storage \in StorageOutcomes :
                   UploadToS3(key, sec[1], env_key, sec[2], storage)

SpecSink == InitSink /\ [][NextSink]_vars

IsUpload(call) == call.fn = "upload_to_s3"
Given(v) == v # PyNone /\ v # PyStr(<<>>)

\* C23: a call of upload_to_s3 raises nothing and returns a boolean: False,
\* with no upload attempted, when the file does not exist or when the access
\* key or the secret is given neither as argument nor in the environment;
\* False when the storage client raises; True only when the file exists, both
\* credentials are there and upload_file succeeded.  The call leaves the local
\* file and the records that were saved as they were.
C23_UploadStatus ==
    [][IsUpload(s3') =>
        LET has_key == Given(s3'.key) \/ Given(s3'.env_key)
            has_secret == Given(s3'.secret) \/ Given(s3'.env_secret)
        IN  /\ ~s3'.raised
            /\ s3'.returned \in BOOLEAN
            /\ (~file.exists \/ ~has_key \/ ~has_secret) =>
                   ~s3'.returned /\ s3'.upload_file_calls = 0
            /\ s3'.storage # "uploaded" => ~s3'.returned
            /\ s3'.returned <=>
                   (file.exists /\ has_key /\ has_secret /\ s3'.storage = "uploaded")
            /\ s3'.returned => s3'.upload_file_calls = 1
            /\ SameFile(file', file)
            /\ csv_call' = csv_call]_vars

\* an upload of saved records failed in the storage client: False was returned,
\* the file and the records are still there
C23_FailedUploadKeptRecords ==
    /\ IsUpload(s3) /\ ~s3.returned /\ s3.upload_file_calls = 1
    /\ IsSave(csv_call) /\ csv_call.offers # <<>>
    /\ file.exists /\ Len(file.lines) = 1 + Len(csv_call.offers)

\* ---------------------------------------------------------------------------
\* main(): configuration, the asynchronous batch, the CSV file, the upload.

\* config.yaml: missing, or a dictionary with or without `routes`, with a
\* date range that is malformed, empty (the start after the end) or of two days,
\* and with the upload switched on or off
Configs ==
    {[exists |-> FALSE, has_routes |-> FALSE, routes |-> <<>>, date_range |-> "two",
      s3_enabled |-> FALSE]}
    \cup [exists : {TRUE}, has_routes : BOOLEAN,
          routes : {<<>>, SubSeq(AllRoutes, 1, 1)},
          date_range : {"malformed", "empty", "two"}, s3_enabled : BOOLEAN]

InitMain ==
    /\ BatchIdle
    /\ field_in = PyAbsent /\ field_out = NoCall
    /\ file = FileAbsent /\ csv_call = NoCall
    /\ s3 = NoCall /\ session = NoCall /\ co = <<>>
    /\ main \in {[pc |-> "start", config |-> c, status |-> -1, raised |-> FALSE,
                  fetcher |-> FALSE] : c \in Configs}

Returns(status) == [main EXCEPT !.pc = "returned", !.status = status]

\* routes_list = config.get('routes', [])
ConfigRoutes(config) == IF config.has_routes THEN config.routes ELSE <<>>
\* if not routes
NoRoutesUnchecked(rs) == FALSE
NoRoutes(rs) == rs = <<>>
\* generate_date_range of a well formed range
GeneratedDates(config) ==
    IF config.date_range = "empty" THEN <<>>
    ELSE <<[ok |-> TRUE, day |-> Today + 1], [ok |-> TRUE, day |-> Today + 2]>>

\* main up to asyncio.run(fetcher.fetch_multiple_routes_async(...))
MainStart ==
    /\ main # NoCall /\ main.pc = "start"
    /\ \/ /\ ~main.config.exists
          /\ main' = Returns(1)
          /\ UNCHANGED cfg_vars
       \/ /\ main.config.exists
          /\ NoRoutes(ConfigRoutes(main.config))
          /\ main' = Returns(1)
          /\ UNCHANGED cfg_vars
       \/ /\ main.config.exists
          /\ ~NoRoutes(ConfigRoutes(main.config))
          /\ main.config.date_range = "malformed"
          /\ main' = [main EXCEPT !.pc = "raised", !.raised = TRUE]
          /\ UNCHANGED cfg_vars
       \/ /\ main.config.exists
          /\ ~NoRoutes(ConfigRoutes(main.config))
          /\ main.config.date_range # "malformed"
          /\ main' = [main EXCEPT !.pc = "running", !.fetcher = TRUE]
          /\ entry' = "async"
          /\ routes' = ConfigRoutes(main.config)
          /\ departure_dates' = GeneratedDates(main.config)
          /\ max_retries' = 1
          /\ UNCHANGED <<max_concurrent, max_offers_per_search>>
    /\ UNCHANGED <<bpc, tasks, semaphore, rate_limiter_elapsed, last_request_elapsed, pc, attempt,
                   sleep_left, exc, outcome, completion, result, fetched, all_offers, calls,
                   sleeps, used_slots, sent_elapsed,
                   field_in, field_out, file, csv_call, s3, session, co>>

\* session.initialize() raises in fetch_multiple_routes_async, before any task
\* is created: main's `except Exception` returns 1
MainBatchRaises ==
    /\ main # NoCall /\ main.pc = "running"
    /\ entry = "async" /\ bpc = "start"
    /\ bpc' = "raised"
    /\ main' = Returns(1)
    /\ UNCHANGED <<cfg_vars, tasks, semaphore, rate_limiter_elapsed, last_request_elapsed, pc,
                   attempt, sleep_left, exc, outcome, completion, result, fetched, all_offers,
                   calls, sleeps, used_slots, sent_elapsed,
                   field_in, field_out, file, csv_call, s3, session, co>>

\* main after asyncio.run returned: save_to_csv (it may raise OSError), then
\* upload_to_s3 with the credentials of the environment
MainFinish ==
    /\ main # NoCall /\ main.pc = "running"
    /\ bpc = "returned"
    /\ \/ /\ all_offers = <<>>
          /\ main' = Returns(0)
          /\ UNCHANGED <<file, csv_call, s3>>
       \/ /\ all_offers # <<>>
          /\ main' = Returns(1)
          /\ UNCHANGED <<file, csv_call, s3>>
       \/ /\ all_offers # <<>>
          /\ file' = Saved(all_offers, FALSE)
          /\ csv_call' = [fn |-> "save_to_csv", offers |-> all_offers, append |-> FALSE,
                          again |-> FALSE]
          /\ \/ ~main.config.s3_enabled /\ s3' = s3
             \/ /\ main.config.s3_enabled
                /\ \E env_key \in CredentialValues : \E env_secret \in {PyNone, PyStr(<<"k">>)} :
                     \E storage \in {"uploaded", "upload_file:ClientError"} :
                       s3' = UploadCall(PyNone, PyNone, env_key, env_secret, storage, TRUE)
          /\ main' = Returns(0)
    /\ UNCHANGED <<batch_vars, field_in, field_out, session, co>>

NextMain ==
    \/ MainStart
    \/ MainBatchRaises
    \/ AsyncBegin
    \/ \E t \in Tasks : AsyncAcquire(t)
    \/ \E t \in Tasks : AsyncRateWake(t)
    \/ \E t \in Tasks : \E res \in BatchResults : AsyncFetchReturn(t, res)
    \/ \E t \in Tasks : \E e \in ExceptionKinds : AsyncFetchRaise(t, e)
    \/ \E t \in Tasks : AsyncBackoffWake(t)
    \/ AsyncReturn
    \/ Tick
    \/ MainFinish

SpecMain == InitMain /\ [][NextMain]_vars

\* C22: while the configuration file is missing or holds no route, main never
\* constructs the fetcher, the batch is never entered (so the session is not
\* initialised and no task is created) and no fetch is issued; main ends by
\* returning 1, without raising.
C22_ConfigErrorIsFatal ==
    (~main.config.exists \/ (main.config.has_routes => main.config.routes = <<>>)) =>
        /\ ~main.fetcher
        /\ entry = "none" /\ bpc = "start" /\ tasks = <<>> /\ calls = <<>>
        /\ main.pc \in {"start", "returned"}
        /\ main.pc = "returned" => main.status = 1 /\ ~main.raised

\* main has returned 1 on a configuration whose route list is empty
C22_ReturnedOnEmptyRoutes ==
    /\ main # NoCall /\ main.pc = "returned" /\ main.status = 1
    /\ main.config.exists /\ main.config.has_routes /\ main.config.routes = <<>>
    /\ ~main.fetcher

\* ---------------------------------------------------------------------------
\* The shared PlaywrightSession (fast_flights/local_playwright.py): coroutines
\* on one event loop take the global session and call initialize() or fetch()
\* on it, or call close_global_session().

MaxCoroutines == 3      \* the coroutines that use the session

CoroutineKinds == {"initialize", "fetch", "close"}

\* PlaywrightSession.__init__; starts and launches count the times Playwright
\* was started and the browser launched for the object, pages holds the
\* coroutines whose page is open in the object's browser
FreshSession ==
    [_playwright |-> FALSE, _browser |-> FALSE, locked_by |-> 0, waiters |-> <<>>,
     starts |-> 0, launches |-> 0, pages |-> {}]

\* _global_session is None, no PlaywrightSession was made
InitSession ==
    /\ BatchIdle
    /\ field_in = PyAbsent /\ field_out = NoCall
    /\ file = FileAbsent /\ csv_call = NoCall
    /\ s3 = NoCall /\ main = NoCall
    /\ session = [global |-> 0, inst |-> <<>>]
    /\ co \in [1..MaxCoroutines -> {[kind |-> k, pc |-> "new", inst |-> 0] : k \in CoroutineKinds}]

Coroutines == 1..Len(co)

\* asyncio.Lock.release(): the lock goes to the first waiter, which is woken
Released(s) ==
    IF s.waiters = <<>> THEN [s EXCEPT !.locked_by = 0]
    ELSE [s EXCEPT !.locked_by = Head(s.waiters), !.waiters = Tail(s.waiters)]
Woken(s, c) ==
    IF s.waiters = <<>> THEN c ELSE [c EXCEPT ![Head(s.waiters)].pc = "granted"]

\* where a coroutine stands when _ensure_browser has returned: initialize() is
\* over, fetch() has called self._browser.new_page() and awaits it
AfterEnsure(kind) == IF kind = "fetch" THEN "opening" ELSE "done"

SessionFrame == UNCHANGED <<batch_vars, field_in, field_out, file, csv_call, s3, main>>

\* get_global_session(), then initialize() or fetch() up to the first
\* suspension of _ensure_browser
CoEnter(i) ==
    /\ co[i].pc = "new" /\ co[i].kind # "close"
    /\ LET g == IF session.global = 0 THEN Len(session.inst) + 1 ELSE session.global
           insts == IF session.global = 0 THEN Append(session.inst, FreshSession)
                    ELSE session.inst
           s == insts[g]
       IN  \/ /\ s._browser
              /\ co' = [co EXCEPT ![i] = [@ EXCEPT !.pc = AfterEnsure(co[i].kind), !.inst = g]]
              /\ session' = [global |-> g, inst |-> insts]
           \/ /\ ~s._browser /\ s.locked_by = 0
              /\ co' = [co EXCEPT ![i] = [@ EXCEPT !.pc = "starting", !.inst = g]]
              /\ session' = [global |-> g,
                             inst |-> [insts EXCEPT ![g] = [s EXCEPT !.locked_by = i]]]
           \/ /\ ~s._browser /\ s.locked_by # 0
              /\ co' = [co EXCEPT ![i] = [@ EXCEPT !.pc = "waiting", !.inst = g]]
              /\ session' = [global |-> g,
                             inst |-> [insts EXCEPT ![g] = [s EXCEPT !.waiters = Append(@, i)]]]
    /\ SessionFrame

\* the lock was handed to a waiter: the second test of self._browser
CoGranted(i) ==
    /\ co[i].pc = "granted"
    /\ LET g == co[i].inst
           s == session.inst[g]
       IN  \/ /\ s._browser
              /\ co' = [Woken(s, co) EXCEPT ![i].pc = AfterEnsure(co[i].kind)]
              /\ session' = [session EXCEPT !.inst[g] = Released(s)]
           \/ /\ ~s._browser
              /\ co' = [co EXCEPT ![i].pc = "starting"]
              /\ UNCHANGED session
    /\ SessionFrame

\* a coroutine waiting for the lock is cancelled
CoCancelWaiting(i) ==
    /\ co[i].pc = "waiting"
    /\ LET g == co[i].inst
           s == session.inst[g]
           at == CHOOSE k \in 1..Len(s.waiters) : s.waiters[k] = i
       IN  session' = [session EXCEPT !.inst[g].waiters =
                           SubSeq(s.waiters, 1, at - 1) \o SubSeq(s.waiters, at + 1, Len(s.waiters))]
    /\ co' = [co EXCEPT ![i].pc = "failed"]
    /\ SessionFrame

\* async_playwright().start() returned: self._playwright is set and
\* chromium.launch() is awaited
CoStartReturn(i) ==
    /\ co[i].pc = "starting"
    /\ co' = [co EXCEPT ![i].pc = "launching"]
    /\ session' = [session EXCEPT !.inst[co[i].inst]._playwright = TRUE,
                                  !.inst[co[i].inst].starts = @ + 1]
    /\ SessionFrame

\* async_playwright().start() raised, or the coroutine was cancelled in it:
\* `async with` releases the lock
CoStartRaise(i) ==
    /\ co[i].pc = "starting"
    /\ LET s == session.inst[co[i].inst]
       IN  /\ co' = [Woken(s, co) EXCEPT ![i].pc = "failed"]
           /\ session' = [session EXCEPT !.inst[co[i].inst] = Released(s)]
    /\ SessionFrame

\* chromium.launch() returned: self._browser is set, the lock is released
CoLaunchReturn(i) ==
    /\ co[i].pc = "launching"
    /\ LET s == [session.inst[co[i].inst] EXCEPT !._browser = TRUE, !.launches = @ + 1]
       IN  /\ co' = [Woken(s, co) EXCEPT ![i].pc = AfterEnsure(co[i].kind)]
           /\ session' = [session EXCEPT !.inst[co[i].inst] = Released(s)]
    /\ SessionFrame

\* chromium.launch() raised, or the coroutine was cancelled in it: `async with`
\* releases the lock, nothing undoes self._playwright
CoLaunchRaise(i) ==
    /\ co[i].pc = "launching"
    /\ LET s == session.inst[co[i].inst]
       IN  /\ co' = [Woken(s, co) EXCEPT ![i].pc = "failed"]
           /\ session' = [session EXCEPT !.inst[co[i].inst] = Released(s)]
    /\ SessionFrame

\* fetch(): self._browser.new_page() returned, the page is open and the try
\* block is entered with page.goto
NewPageReturn(i) ==
    /\ co[i].pc = "opening"
    /\ co' = [co EXCEPT ![i].pc = "page"]
    /\ session' = [session EXCEPT !.inst[co[i].inst].pages = @ \cup {i}]
    /\ SessionFrame

\* fetch(): self._browser.new_page() raised (always so once the browser it
\* was called on has been closed); no page was opened and the try block is
\* not entered
NewPageRaise(i) ==
    /\ co[i].pc \in {"opening", "lost"}
    /\ co' = [co EXCEPT ![i].pc = "failed"]
    /\ UNCHANGED session
    /\ SessionFrame

\* fetch() without its try/finally: a failure in the try block leaves fetch
\* at once
PageWorkEndsLeaksOnRaise(i) ==
    /\ co[i].pc = "page"
    /\ \E raised \in BOOLEAN :
          co' = [co EXCEPT ![i].pc = IF raised THEN "raised" ELSE "close_after_return"]
    /\ UNCHANGED session
    /\ SessionFrame

\* fetch(): the try block is left, by `return body` or by an exception of
\* goto, click, wait_for_selector (the 30 s timeout) or evaluate; either way
\* the finally clause awaits page.close()
PageWorkEnds(i) ==
    /\ co[i].pc = "page"
    /\ \E raised \in BOOLEAN :
          co' = [co EXCEPT ![i].pc = IF raised THEN "close_after_raise"
                                               ELSE "close_after_return"]
    /\ UNCHANGED session
    /\ SessionFrame

\* fetch(): page.close() returned in the finally clause; fetch returns the
\* body or the exception of the try block goes on to the caller
PageCloseDone(i) ==
    /\ co[i].pc \in {"close_after_return", "close_after_raise"}
    /\ co' = [co EXCEPT ![i].pc = IF co[i].pc = "close_after_return" THEN "done"
                                                                       ELSE "raised"]
    /\ session' = [session EXCEPT !.inst[co[i].inst].pages = @ \ {i}]
    /\ SessionFrame

\* close_global_session() up to its first suspension, in PlaywrightSession.close
CloseEnter(i) ==
    /\ co[i].pc = "new" /\ co[i].kind = "close"
    /\ \/ /\ session.global = 0
          /\ co' = [co EXCEPT ![i].pc = "done"]
          /\ UNCHANGED session
       \/ /\ session.global # 0
          /\ session.inst[session.global]._browser
          /\ co' = [co EXCEPT ![i] = [@ EXCEPT !.pc = "closing", !.inst = session.global]]
          /\ UNCHANGED session
       \/ /\ session.global # 0
          /\ ~session.inst[session.global]._browser
          /\ session.inst[session.global]._playwright
          /\ co' = [co EXCEPT ![i] = [@ EXCEPT !.pc = "stopping", !.inst = session.global]]
          /\ UNCHANGED session
       \/ /\ session.global # 0
          /\ ~session.inst[session.global]._browser
          /\ ~session.inst[session.global]._playwright
          /\ co' = [co EXCEPT ![i] = [@ EXCEPT !.pc = "done", !.inst = session.global]]
          /\ session' = [session EXCEPT !.global = 0]
    /\ SessionFrame

\* Browser.close() closes the browser's pages with it, and a new_page still
\* awaited on that browser can only fail
BrowserGone(c, g) ==
    [k \in DOMAIN c |->
        IF c[k].inst = g /\ c[k].pc = "opening" THEN [c[k] EXCEPT !.pc = "lost"] ELSE c[k]]

\* self._browser.close() returned: self._browser = None, then self._playwright
CloseBrowserDone(i) ==
    /\ co[i].pc = "closing"
    /\ LET g == co[i].inst
       IN  \/ /\ session.inst[g]._playwright
              /\ co' = [BrowserGone(co, g) EXCEPT ![i].pc = "stopping"]
              /\ session' = [session EXCEPT !.inst[g]._browser = FALSE,
                                            !.inst[g].pages = {}]
           \/ /\ ~session.inst[g]._playwright
              /\ co' = [BrowserGone(co, g) EXCEPT ![i].pc = "done"]
              /\ session' = [session EXCEPT !.inst[g]._browser = FALSE,
                                            !.inst[g].pages = {}, !.global = 0]
    /\ SessionFrame

\* self._playwright.stop() returned: self._playwright = None, _global_session = None
CloseStopDone(i) ==
    /\ co[i].pc = "stopping"
    /\ co' = [co EXCEPT ![i].pc = "done"]
    /\ session' = [session EXCEPT !.inst[co[i].inst]._playwright = FALSE, !.global = 0]
    /\ SessionFrame

NextSession ==
    \/ \E i \in Coroutines : CoEnter(i)
    \/ \E i \in Coroutines : CoGranted(i)
    \/ \E i \in Coroutines : CoCancelWaiting(i)
    \/ \E i \in Coroutines : CoStartReturn(i)
    \/ \E i \in Coroutines : CoStartRaise(i)
    \/ \E i \in Coroutines : CoLaunchReturn(i)
    \/ \E i \in Coroutines : CoLaunchRaise(i)
    \/ \E i \in Coroutines : NewPageReturn(i)
    \/ \E i \in Coroutines : NewPageRaise(i)
    \/ \E i \in Coroutines : PageWorkEnds(i)
    \/ \E i \in Coroutines : PageCloseDone(i)
    \/ \E i \in Coroutines : CloseEnter(i)
    \/ \E i \in Coroutines : CloseBrowserDone(i)
    \/ \E i \in Coroutines : CloseStopDone(i)

SpecSession == InitSession /\ [][NextSession]_vars

\* a close of session g is under way
Closing(g) ==
    \E i \in Coroutines :
        co[i].kind = "close" /\ co[i].inst = g /\ co[i].pc \in {"closing", "stopping"}
\* close_global_session has been called
CloseCalled == \E i \in Coroutines : co[i].kind = "close" /\ co[i].pc # "new"

\* C24: outside an initialisation that holds the lock (and outside a close), no
\* session has _playwright set while _browser is unset, whatever was cancelled
\* or failed in _ensure_browser; a coroutine that failed or was cancelled there
\* neither holds the lock nor waits for it.
C24_NotHalfInitialised ==
    /\ \A g \in 1..Len(session.inst) :
          (session.inst[g].locked_by = 0 /\ ~Closing(g)) =>
              ~(session.inst[g]._playwright /\ ~session.inst[g]._browser)
    /\ \A i \in Coroutines :
          co[i].pc = "failed" =>
              /\ session.inst[co[i].inst].locked_by # i
              /\ \A k \in 1..Len(session.inst[co[i].inst].waiters) :
                    session.inst[co[i].inst].waiters[k] # i

\* C28: as long as close_global_session has not been called, every coroutine
\* was given the same session, Playwright was started at most once and the
\* browser launched at most once on it, and a fetch that has asked for its
\* page found the browser set.
C28_AcquiredOnce ==
    ~CloseCalled =>
        /\ Len(session.inst) <= 1
        /\ \A i \in Coroutines : co[i].inst # 0 => co[i].inst = session.global
        /\ \A g \in 1..Len(session.inst) :
              session.inst[g].starts <= 1 /\ session.inst[g].launches <= 1
        /\ \A i \in Coroutines :
              co[i].pc \in {"opening", "page"} => session.inst[co[i].inst]._browser

\* the pages that are open, each named by the coroutine whose fetch opened it
OpenPages == UNION {session.inst[g].pages : g \in 1..Len(session.inst)}
\* fetch call i has been made and has neither returned nor raised
FetchInProgress(i) ==
    co[i].kind = "fetch" /\ co[i].pc \notin {"new", "done", "failed", "raised"}
\* fetch call i is between the return of new_page and the return of page.close
HoldsPage(i) ==
    co[i].kind = "fetch" /\ co[i].pc \in {"page", "close_after_return", "close_after_raise"}

\* C31 as stated: the number of open pages equals the number of fetch calls
\* in progress, and is zero once every fetch call has returned or failed.
C31_PagesEqualCallsInProgress ==
    /\ Cardinality(OpenPages) = Cardinality({i \in Coroutines : FetchInProgress(i)})
    /\ (\A i \in Coroutines : ~FetchInProgress(i)) => OpenPages = {}

\* C31: fetch closes the page it opened on every way out of its try block, so
\* every open page belongs to a fetch call that is between the return of
\* new_page and the return of page.close, in the session that call uses; as
\* long as close_global_session has not been called the open pages are exactly
\* the pages of those calls (a call still in _ensure_browser or awaiting
\* new_page has none); and no page is open once every fetch call has returned
\* or failed.
C31_PagesClosedOnExit ==
    /\ \A g \in 1..Len(session.inst) : \A i \in session.inst[g].pages :
          HoldsPage(i) /\ co[i].inst = g
    /\ ~CloseCalled => OpenPages = {i \in Coroutines : HoldsPage(i)}
    /\ (\A i \in Coroutines : ~FetchInProgress(i)) => OpenPages = {}

\* one fetch has returned its body, one has failed in its try block, both
\* after page.close, and the only open page is that of a third fetch
C31_ClosedAfterTimeout ==
    /\ ~CloseCalled
    /\ \E i, j, k \in Coroutines :
          /\ co[i].kind = "fetch" /\ co[i].pc = "done"
          /\ co[j].kind = "fetch" /\ co[j].pc = "raised"
          /\ HoldsPage(k) /\ OpenPages = {k}

\* ---------------------------------------------------------------------------
\* More properties of the batch

\* C25: in fetch_multiple_routes_async a query's first fetch attempt starts in
\* the step in which the query leaves the rate limiter (a limiter sleep is over
\* by then, and the slot's time is set); a retry attempt starts from the
\* backoff and leaves every limiter state alone; a query waits in the limiter
\* only before its first attempt; offers are assembled only in the step in
\* which a fetch attempt returns.
C25_StageOrder ==
    [][entry = "async" =>
        \A t \in Tasks :
            /\ (calls[t] = 0 /\ calls'[t] = 1) =>
                   /\ pc[t] \in {"created", "rate_wait"}
                   /\ pc[t] = "rate_wait" => sleep_left[t] = 0
                   /\ rate_limiter_elapsed'[SlotOf(t)] = 0
                   /\ SlotOf(t) \in used_slots'[t]
            /\ (calls[t] >= 1 /\ calls'[t] > calls[t]) =>
                   /\ pc[t] = "backoff"
                   /\ rate_limiter_elapsed' = rate_limiter_elapsed
                   /\ used_slots'[t] = used_slots[t]
            /\ (pc'[t] = "rate_wait" /\ pc[t] # "rate_wait") =>
                   pc[t] = "created" /\ calls[t] = 0
            /\ (result'[t] # <<>> /\ result[t] = <<>>) =>
                   pc[t] = "fetching" /\ calls[t] >= 1 /\ outcome'[t] = "ok"]_vars

\* a later query of a slot already used went through the limiter, failed once,
\* retried and had its offers assembled
C25_RetriedAfterLimiter ==
    /\ entry = "async"
    /\ \E t \in Tasks :
          /\ t > 1 /\ SlotOf(t) = SlotOf(1) /\ calls[1] >= 1
          /\ calls[t] = 2 /\ pc[t] = "done" /\ result[t] # <<>>

\* one tick of time has passed for the limiter states
Ticked ==
    /\ \A i \in DOMAIN rate_limiter_elapsed :
          rate_limiter_elapsed'[i] =
              (IF rate_limiter_elapsed[i] + 1 < request_delay
               THEN rate_limiter_elapsed[i] + 1 ELSE request_delay)
    /\ last_request_elapsed' =
          (IF last_request_elapsed + 1 < request_delay
           THEN last_request_elapsed + 1 ELSE request_delay)

\* the time elapsed since the limiter time that query t uses: its slot's in
\* fetch_multiple_routes_async, the fetcher's in fetch_multiple_routes
ElapsedFor(t) ==
    IF entry = "async" THEN rate_limiter_elapsed[SlotOf(t)] ELSE last_request_elapsed
ElapsedAfterFor(t) ==
    IF entry = "async" THEN rate_limiter_elapsed'[SlotOf(t)] ELSE last_request_elapsed'

\* C26: a query that enters the limiter (_async_rate_limiter on its slot,
\* _wait_for_rate_limit on the fetcher) when less than request_delay has
\* elapsed since the limiter's time is suspended for request_delay minus the
\* elapsed time; otherwise it is not suspended; when it leaves the limiter the
\* limiter's time is the current time; and a limiter's time never moves back
\* (the time elapsed since it grows only with the clock).
C26_Limiter ==
    [][(bpc = "running" /\ bpc' = "running") =>
        /\ \A t \in Tasks :
              /\ (pc[t] = "created" /\ pc'[t] = "rate_wait") =>
                     /\ ElapsedFor(t) < request_delay
                     /\ sleep_left'[t] = request_delay - ElapsedFor(t)
                     /\ rate_limiter_elapsed' = rate_limiter_elapsed
                     /\ last_request_elapsed' = last_request_elapsed
              /\ (pc[t] = "created" /\ pc'[t] = "fetching") =>
                     ElapsedFor(t) >= request_delay /\ ElapsedAfterFor(t) = 0
              /\ (pc[t] = "rate_wait" /\ pc'[t] # "rate_wait") =>
                     /\ sleep_left[t] = 0
                     /\ pc'[t] = "fetching"
                     /\ ElapsedAfterFor(t) = 0
        /\ \/ Ticked
           \/ /\ \A i \in DOMAIN rate_limiter_elapsed :
                    rate_limiter_elapsed'[i] <= rate_limiter_elapsed[i]
              /\ last_request_elapsed' <= last_request_elapsed]_vars

\* a query is suspended in the limiter for less than the whole delay
C26_PartialSleep ==
    /\ entry = "async"
    /\ \E t \in Tasks :
          /\ pc[t] = "rate_wait"
          /\ sleep_left[t] > 0 /\ sleep_left[t] < request_delay
          /\ sleeps[t] = <<>>

\* the tasks inside `async with semaphore`
InGate == {t \in Tasks : pc[t] \notin {"created", "done"}}

\* C29: in every state of a batch of fetch_multiple_routes_async the free
\* permits and the tasks inside the gate add up to max_concurrent; every task
\* that is done, however it ended (offers, no offers, expired, retries
\* exhausted, an exception that escaped it), has given its permit back, and
\* all permits are free when the batch returns.
C29_GateConserved ==
    (entry = "async" /\ bpc \in {"running", "returned"}) =>
        /\ semaphore + Cardinality(InGate) = max_concurrent
        /\ semaphore >= 0
        /\ bpc = "returned" => semaphore = max_concurrent
        /\ (\A t \in Tasks : pc[t] = "done") => semaphore = max_concurrent

\* the batch returned after one query raised and another exhausted its retries
C29_AllExitsReleased ==
    /\ entry = "async" /\ bpc = "returned"
    /\ semaphore = max_concurrent
    /\ \E t \in Tasks : outcome[t] = "raised"
    /\ \E t \in Tasks : outcome[t] = "exhausted"

\* the offers assembled from what the collaborator returned to queries 1..n
RECURSIVE AssembledInOrder(_)
AssembledInOrder(n) ==
    IF n = 0 THEN <<>>
    ELSE AssembledInOrder(n - 1)
           \o AssembleOffers(tasks[n], seat_class, fetched[n], max_offers_per_search)

\* C30: the list returned by fetch_multiple_routes_async is a function of the
\* queries and of what the collaborator returned to each: the concatenation,
\* in creation order (routes outside, dates inside), of the offers assembled
\* for each query; the order in which the tasks completed plays no part.
C30_OrderIndependent ==
    (entry = "async" /\ bpc = "returned") =>
        /\ \A t \in Tasks : t = tasks[t].query_num
        /\ \A t, u \in Tasks :
              (t < u /\ Len(departure_dates) > 0) =>
                  (t - 1) \div Len(departure_dates) <= (u - 1) \div Len(departure_dates)
        /\ all_offers = AssembledInOrder(Len(tasks))

\* two queries with different offers returned, the later before the earlier
C30_LaterQueryFirst ==
    /\ entry = "async" /\ bpc = "returned"
    /\ Len(completion) = 2 /\ completion[1] > completion[2]
    /\ all_offers = result[1] \o result[2]
    /\ result[1] # result[2]

\* ---------------------------------------------------------------------------
\* fetch_multiple_routes_async under fair scheduling: the event loop runs every
\* task that is ready, time passes, and every fetch attempt returns or raises.

InitAsync == Init /\ entry = "async"

FetchEnds(t) ==
    \/ \E res \in BatchResults : AsyncFetchReturn(t, res)
    \/ \E e \in ExceptionKinds : AsyncFetchRaise(t, e)

NextAsync ==
    \/ AsyncBegin
    \/ \E t \in Tasks : AsyncAcquire(t)
    \/ \E t \in Tasks : AsyncRateWake(t)
    \/ \E t \in Tasks : FetchEnds(t)
    \/ \E t \in Tasks : AsyncBackoffWake(t)
    \/ AsyncReturn
    \/ Tick

\* a fetch attempt that is out ends: the task is done or backs off
FetchAttemptEnds ==
    \E t \in Tasks :
        /\ pc[t] = "fetching"
        /\ pc' \in {[pc EXCEPT ![t] = "done"], [pc EXCEPT ![t] = "backoff"]}

\* the event loop runs what is ready (the batch, a task at the gate when a
\* permit is free, a task whose sleep is over, the collection when all tasks
\* are done), time passes, and a fetch attempt that is out ends
FairAsync ==
    /\ WF_vars(AsyncBegin)
    /\ WF_vars(\E t \in Tasks : AsyncAcquire(t))
    /\ WF_vars(\E t \in Tasks : AsyncRateWake(t))
    /\ WF_vars(\E t \in Tasks : AsyncBackoffWake(t))
    /\ WF_vars(AsyncReturn)
    /\ WF_vars(Tick)
    /\ WF_pc(FetchAttemptEnds)

SpecAsyncFair == InitAsync /\ [][NextAsync]_vars /\ FairAsync

====
